---- MODULE Spec2Model ----
(***************************************************************************)
(* Model of the PDF spatial transaction extractor of UMHC Finance          *)
(* (src/js/ocr-processor.js, class PDFSpatialProcessor).                   *)
(*                                                                         *)
(* Conventions                                                             *)
(*  - a text is a sequence of one-character strings; the pound and euro    *)
(*    signs are the elements "GBP" and "EUR";                              *)
(*  - money is an integer number of pence (123.45 is 12345);               *)
(*  - coordinates are integers in PDF layout units;                        *)
(*  - a JavaScript value that may be null is a record [some |-> FALSE]     *)
(*    or [some |-> TRUE, val |-> v];                                       *)
(*  - confidence is kept in tenths (0.9 is 9);                             *)
(*  - call is a direct call of one function of the processor (its name,    *)
(*    its argument, whether it has returned, the value returned), used     *)
(*    where a function is examined by itself.                              *)
(***************************************************************************)
EXTENDS Integers, Sequences, FiniteSets, TLC

VARIABLES currentProcessingId, pdfjsLoaded, now, runs, activeRuns, docPool, call

vars == <<currentProcessingId, pdfjsLoaded, now, runs, activeRuns, docPool, call>>

----------------------------------------------------------------------------
(* JavaScript null / truthiness *)

Null == [some |-> FALSE]

Some(v) == [some |-> TRUE, val |-> v]

\* truthiness of a number-or-null: null and 0 are falsy
Truthy(o) == o.some /\ o.val # 0

\* JS  a || d  for a number-or-null a and a number d
OrElse(o, d) == IF Truthy(o) THEN o.val ELSE d

Min(a, b) == IF a < b THEN a ELSE b

Abs(a) == IF a < 0 THEN 0 - a ELSE a

----------------------------------------------------------------------------
(* Characters and strings *)

Digits == {"0", "1", "2", "3", "4", "5", "6", "7", "8", "9"}

UpperChars == <<"A","B","C","D","E","F","G","H","I","J","K","L","M",
                "N","O","P","Q","R","S","T","U","V","W","X","Y","Z">>

LowerChars == <<"a","b","c","d","e","f","g","h","i","j","k","l","m",
                "n","o","p","q","r","s","t","u","v","w","x","y","z">>

Letters == {UpperChars[i] : i \in 1..26} \cup {LowerChars[i] : i \in 1..26}

WhiteSpace == {" "}

CurrencySigns == {"GBP", "$", "EUR"}

\* the regular-expression class \w
WordChars == Letters \cup Digits \cup {"_"}

DigitVal(c) == CHOOSE n \in 0..9 : <<"0","1","2","3","4","5","6","7","8","9">>[n + 1] = c

\* String.prototype.toLowerCase, one character
LowerChar(c) ==
    IF \E i \in 1..26 : UpperChars[i] = c
    THEN LowerChars[CHOOSE i \in 1..26 : UpperChars[i] = c]
    ELSE c

toLowerCase(s) == [i \in 1..Len(s) |-> LowerChar(s[i])]

\* the characters of s that are not in the set drop (replace(/[drop]/g, ''))
Filter(s, drop) == SelectSeq(s, LAMBDA c : c \notin drop)

\* the characters of s that are in the set keep (replace(/[^keep]/g, ''))
Keep(s, keep) == SelectSeq(s, LAMBDA c : c \in keep)

TrimLeft(s) ==
    IF \A i \in 1..Len(s) : s[i] \in WhiteSpace THEN <<>>
    ELSE SubSeq(s, CHOOSE i \in 1..Len(s) :
                       s[i] \notin WhiteSpace /\ \A j \in 1..(i - 1) : s[j] \in WhiteSpace,
                Len(s))

TrimRight(s) ==
    IF \A i \in 1..Len(s) : s[i] \in WhiteSpace THEN <<>>
    ELSE SubSeq(s, 1, CHOOSE i \in 1..Len(s) :
                          s[i] \notin WhiteSpace /\ \A j \in (i + 1)..Len(s) : s[j] \in WhiteSpace)

\* String.prototype.trim
trim(s) == TrimRight(TrimLeft(s))

\* String.prototype.includes
includes(s, k) ==
    \E i \in 1..(Len(s) - Len(k) + 1) : SubSeq(s, i, i + Len(k) - 1) = k

\* String.prototype.substring(0, n)
substring0(s, n) == IF Len(s) <= n THEN s ELSE SubSeq(s, 1, n)

\* replace(/\s+/g, ' '): the first character of each run of white space
\* becomes one space, the rest of the run goes
CollapseSpaces(s) ==
    LET kept == SelectSeq([i \in 1..Len(s) |-> i],
                          LAMBDA i : s[i] \notin WhiteSpace \/ i = 1 \/ s[i - 1] \notin WhiteSpace)
    IN  [k \in 1..Len(kept) |-> IF s[kept[k]] \in WhiteSpace THEN " " ELSE s[kept[k]]]

RECURSIVE JoinSpace(_)
\* Array.prototype.join(' ') over a sequence of texts
JoinSpace(ts) ==
    IF ts = <<>> THEN <<>>
    ELSE IF Len(ts) = 1 THEN ts[1]
    ELSE ts[1] \o <<" ">> \o JoinSpace(Tail(ts))

AllDigits(s, a, b) == \A i \in a..b : i \in 1..Len(s) /\ s[i] \in Digits

RECURSIVE ParseNat(_)
\* parseInt / parseFloat of a non-empty string of digits
ParseNat(s) ==
    IF s = <<>> THEN 0 ELSE 10 * ParseNat(SubSeq(s, 1, Len(s) - 1)) + DigitVal(s[Len(s)])

RECURSIVE SplitOn(_, _)
\* String.prototype.split(c)
SplitOn(s, c) ==
    IF \E i \in 1..Len(s) : s[i] = c
    THEN LET i == CHOOSE j \in 1..Len(s) : s[j] = c /\ \A k \in 1..(j - 1) : s[k] # c
         IN  <<SubSeq(s, 1, i - 1)>> \o SplitOn(SubSeq(s, i + 1, Len(s)), c)
    ELSE <<s>>

\* index of the last occurrence of c in s, 0 when absent (lastIndexOf + 1)
LastIndexOf(s, c) ==
    IF \E i \in 1..Len(s) : s[i] = c
    THEN CHOOSE i \in 1..Len(s) : s[i] = c /\ \A k \in (i + 1)..Len(s) : s[k] # c
    ELSE 0

\* two decimal digits of n, zero padded (String(n).padStart(2, '0') for n < 100)
Pad2(n) ==
    LET ds == <<"0","1","2","3","4","5","6","7","8","9">>
    IN  <<ds[(n \div 10) + 1], ds[(n % 10) + 1]>>

RECURSIVE NatToText(_)
\* String(n) for a natural number n
NatToText(n) ==
    LET ds == <<"0","1","2","3","4","5","6","7","8","9">>
    IN  IF n < 10 THEN <<ds[n + 1]>> ELSE NatToText(n \div 10) \o <<ds[(n % 10) + 1]>>

----------------------------------------------------------------------------
(* Token normalizer *)

\* the character substitutions of normalizeDate, one character
DateSubst(c) ==
    IF c \in {"O", "o"} THEN "0"
    ELSE IF c \in {"I", "l", "|"} THEN "1"
    ELSE IF c = "S" THEN "5"
    ELSE IF c = "Z" THEN "2"
    ELSE IF c = "G" THEN "6"
    ELSE IF c \in {"-", "."} THEN "/"
    ELSE c

IsLeap(y) == (y % 4 = 0 /\ y % 100 # 0) \/ y % 400 = 0

DaysInMonth(m, y) ==
    IF m = 2 THEN (IF IsLeap(y) THEN 29 ELSE 28)
    ELSE IF m \in {4, 6, 9, 11} THEN 30 ELSE 31

\* DateAfter changed to hold of the same day as well
DateAfter_orSame(a, b) ==
    \/ a.y > b.y
    \/ a.y = b.y /\ a.m > b.m
    \/ a.y = b.y /\ a.m = b.m /\ a.d >= b.d

\* calendar order on [y, m, d] records: a is strictly later than b
DateAfter(a, b) ==
    \/ a.y > b.y
    \/ a.y = b.y /\ a.m > b.m
    \/ a.y = b.y /\ a.m = b.m /\ a.d > b.d

\* new Date(n.y + 2, n.m - 1, n.d): a 29 February rolls over to 1 March
twoYearsFromNow(n) ==
    IF n.d > DaysInMonth(n.m, n.y + 2)
    THEN [y |-> n.y + 2, m |-> n.m + 1, d |-> n.d - DaysInMonth(n.m, n.y + 2)]
    ELSE [y |-> n.y + 2, m |-> n.m, d |-> n.d]

\* the replace chain of normalizeDate: letters read as digits, white space
\* removed, separators made slashes, all but digits and slashes removed
CleanDate(dateStr) ==
    Keep(Filter([i \in 1..Len(dateStr) |-> DateSubst(dateStr[i])], WhiteSpace),
         Digits \cup {"/"})

\* CheckedDate changed to write the day without padding
CheckedDate_unpadded(day, month, year, n) ==
    IF day < 1 \/ day > 31 \/ month < 1 \/ month > 12
       \/ year < 1900 \/ year > 2100 THEN Null
    ELSE IF day > DaysInMonth(month, year) THEN Null
    ELSE IF DateAfter([y |-> year, m |-> month, d |-> day], twoYearsFromNow(n))
         THEN Null
    ELSE Some(NatToText(day) \o <<"/">> \o Pad2(month) \o <<"/">> \o NatToText(year))

\* the checks of normalizeDate on day, month and year (range, calendar, not
\* later than two years after the processing date n) and the text returned
CheckedDate(day, month, year, n) ==
    IF day < 1 \/ day > 31 \/ month < 1 \/ month > 12
       \/ year < 1900 \/ year > 2100 THEN Null
    ELSE IF day > DaysInMonth(month, year) THEN Null
    ELSE IF DateAfter([y |-> year, m |-> month, d |-> day], twoYearsFromNow(n))
         THEN Null
    ELSE Some(Pad2(day) \o <<"/">> \o Pad2(month) \o <<"/">> \o NatToText(year))

\* two-digit years get their century; day and month are swapped when only
\* the day can be a month
DateOfNumbers(day, month, year, n) ==
    CheckedDate(IF month > 12 /\ day <= 12 THEN month ELSE day,
                IF month > 12 /\ day <= 12 THEN day ELSE month,
                IF year < 100 THEN (IF year > 50 THEN 1900 + year ELSE 2000 + year)
                ELSE year,
                n)

\* DateOfParts changed to take the year of the processing date when the text
\* has a day and a month only
DateOfParts_defaultYear(parts, n) ==
    IF Len(parts) = 2 /\ parts[1] # <<>> /\ parts[2] # <<>>
    THEN DateOfNumbers(ParseNat(parts[1]), ParseNat(parts[2]), n.y, n)
    ELSE IF Len(parts) # 3 THEN Null
    ELSE IF \E i \in 1..3 : parts[i] = <<>> THEN Null
    ELSE DateOfNumbers(ParseNat(parts[1]), ParseNat(parts[2]), ParseNat(parts[3]), n)

\* the three parts of the split date, parsed as integers
DateOfParts(parts, n) ==
    IF Len(parts) # 3 THEN Null
    ELSE IF \E i \in 1..3 : parts[i] = <<>> THEN Null
    ELSE DateOfNumbers(ParseNat(parts[1]), ParseNat(parts[2]), ParseNat(parts[3]), n)

\* normalizeDate(dateStr) evaluated on the processing date n
normalizeDate(dateStr, n) ==
    IF dateStr = <<>> THEN Null
    ELSE DateOfParts(SplitOn(CleanDate(dateStr), "/"), n)

\* characters cleanDescription keeps: [\w\s£$€.,()-]
DescriptionChars == WordChars \cup WhiteSpace \cup CurrencySigns \cup {".", ",", "(", ")", "-"}

MaxDescriptionLength == 100

cleanDescription(description) ==
    substring0(trim(Keep(CollapseSpaces(description), DescriptionChars)), MaxDescriptionLength)

\* the character substitutions of parseCurrencyAmount, one character
AmountSubst(c) ==
    IF c \in {"O", "o"} THEN "0"
    ELSE IF c \in {"I", "l"} THEN "1"
    ELSE IF c = "S" THEN "5"
    ELSE IF c = "Z" THEN "2"
    ELSE IF c = "G" THEN "6"
    ELSE c

\* /\d+\.\d/.test(s)
HasDigitDotDigit(s) ==
    \E p \in 2..(Len(s) - 1) : s[p] = "." /\ s[p - 1] \in Digits /\ s[p + 1] \in Digits

\* /\d+\.\d{2}/.test(s)
HasDigitDot2Digits(s) ==
    \E p \in 2..(Len(s) - 2) :
        s[p] = "." /\ s[p - 1] \in Digits /\ s[p + 1] \in Digits /\ s[p + 2] \in Digits

\* /^\d{1,6}\.\d{2}$/.test(s)
currencyPattern(s) ==
    /\ Len(s) >= 4
    /\ Len(s) <= 9
    /\ s[Len(s) - 2] = "."
    /\ AllDigits(s, 1, Len(s) - 3)
    /\ AllDigits(s, Len(s) - 1, Len(s))

MinAmount == 1

MaxAmount == 5000000

\* the letters of s read as digits
AmountSubstAll(s) == [i \in 1..Len(s) |-> AmountSubst(s[i])]

\* isNegative of parseCurrencyAmount
IsNegativeAmount(amountStr) ==
    \/ includes(amountStr, <<"(">>)
    \/ includes(amountStr, <<"-">>)
    \/ includes(toLowerCase(amountStr), <<"o", "u", "t">>)
    \/ includes(toLowerCase(amountStr), <<"d", "e", "b", "i", "t">>)

\* AmountInRange changed to reject the amount 0.01 as well
AmountInRange_open(amount, isNegative) ==
    IF amount <= MinAmount \/ amount > MaxAmount THEN Null
    ELSE Some(IF isNegative THEN 0 - amount ELSE amount)

\* the range check on the amount in pence, and the sign
AmountInRange(amount, isNegative) ==
    IF amount < MinAmount \/ amount > MaxAmount THEN Null
    ELSE Some(IF isNegative THEN 0 - amount ELSE amount)

\* parseFloat of a text that matches currencyPattern, in pence
ParseFloatPence(s) ==
    100 * ParseNat(SubSeq(s, 1, Len(s) - 3)) + ParseNat(SubSeq(s, Len(s) - 1, Len(s)))

\* the strict format check and what follows it
AmountOfFormatted(cleaned, isNegative) ==
    IF ~currencyPattern(cleaned) THEN Null
    ELSE AmountInRange(ParseFloatPence(cleaned), isNegative)

\* AmountOfSeparated changed to read a right-most comma as the decimal point
\* and the dots before it as thousands separators
AmountOfSeparated_commaDecimal(cleaned, commaParts, isNegative) ==
    IF includes(cleaned, <<",">>) /\ includes(cleaned, <<".">>)
    THEN AmountOfFormatted(IF LastIndexOf(cleaned, ".") > LastIndexOf(cleaned, ",")
                           THEN Filter(cleaned, {","})
                           ELSE [i \in 1..Len(Filter(cleaned, {"."})) |->
                                    IF Filter(cleaned, {"."})[i] = "," THEN "."
                                    ELSE Filter(cleaned, {"."})[i]],
                           isNegative)
    ELSE IF includes(cleaned, <<",">>)
    THEN (IF Len(commaParts) = 2 /\ Len(commaParts[2]) = 2
          THEN AmountOfFormatted(commaParts[1] \o <<".">> \o commaParts[2], isNegative)
          ELSE Null)
    ELSE AmountOfFormatted(cleaned, isNegative)

\* the handling of commas; commaParts is cleaned.split(',')
AmountOfSeparated(cleaned, commaParts, isNegative) ==
    IF includes(cleaned, <<",">>) /\ includes(cleaned, <<".">>)
    THEN AmountOfFormatted(IF LastIndexOf(cleaned, ".") > LastIndexOf(cleaned, ",")
                           THEN Filter(cleaned, {","}) ELSE cleaned,
                           isNegative)
    ELSE IF includes(cleaned, <<",">>)
    THEN (IF Len(commaParts) = 2 /\ Len(commaParts[2]) = 2
          THEN AmountOfFormatted(commaParts[1] \o <<".">> \o commaParts[2], isNegative)
          ELSE Null)
    ELSE AmountOfFormatted(cleaned, isNegative)

\* cleaned after the negative indicators and all but digits, commas and dots
\* have been removed
AmountOfDigits(cleaned, isNegative) ==
    AmountOfSeparated(cleaned, SplitOn(cleaned, ","), isNegative)

\* cleaned after the substitutions and the removal of signs and white space
AmountOfCleaned(cleaned, isNegative) ==
    IF cleaned = <<>> \/ ~HasDigitDotDigit(cleaned) THEN Null
    ELSE AmountOfDigits(Keep(Filter(cleaned, {"(", ")", "-"}), Digits \cup {".", ","}),
                        isNegative)

\* parseCurrencyAmount(amountStr): pence, signed, or null
parseCurrencyAmount(amountStr) ==
    IF amountStr = <<>> THEN Null
    ELSE AmountOfCleaned(Filter(AmountSubstAll(trim(amountStr)), CurrencySigns \cup WhiteSpace),
                         IsNegativeAmount(amountStr))

----------------------------------------------------------------------------
(* Spatial text: a fragment (item) is a record [text, x, y] *)

\* the comparator of the sort in extractSpatialText
SortCompare(a, b) ==
    IF Abs(a.y - b.y) < 5 THEN a.x - b.x ELSE b.y - a.y

RECURSIVE SortInsert(_, _)
\* stable insertion of it behind every element that does not compare greater
SortInsert(s, it) ==
    IF s = <<>> \/ SortCompare(s[Len(s)], it) <= 0 THEN Append(s, it)
    ELSE Append(SortInsert(SubSeq(s, 1, Len(s) - 1), it), s[Len(s)])

RECURSIVE SortItems(_)
\* Array.prototype.sort (stable) with SortCompare
SortItems(items) ==
    IF items = <<>> THEN <<>>
    ELSE SortInsert(SortItems(SubSeq(items, 1, Len(items) - 1)), items[Len(items)])

\* extractSpatialText(textContent, pageNum): the sorted items of the page
extractSpatialText(textContent, pageNum) ==
    [items |-> SortItems(textContent), pageNum |-> pageNum]

----------------------------------------------------------------------------
(* Column structure detector *)

headerKeywords ==
    << <<"d","a","t","e">>,
       <<"d","e","s","c","r","i","p","t","i","o","n">>,
       <<"c","a","s","h"," ","i","n">>,
       <<"c","a","s","h"," ","o","u","t">>,
       <<"a","m","o","u","n","t">> >>

\* index in headerKeywords of the first keyword t contains, 0 for none
FirstKeyword(t) ==
    IF \E k \in 1..Len(headerKeywords) : includes(t, headerKeywords[k])
    THEN CHOOSE k \in 1..Len(headerKeywords) :
             /\ includes(t, headerKeywords[k])
             /\ \A j \in 1..(k - 1) : ~includes(t, headerKeywords[j])
    ELSE 0

\* the keyword matched by the text of an item, lower-cased and trimmed
MatchedKeyword(text) == FirstKeyword(trim(toLowerCase(text)))

\* the entry the first loop of detectColumnStructure pushes for an item whose
\* text matches headerKeywords[keyword], none when keyword is 0
HeaderOf(item, keyword) ==
    IF keyword = 0 THEN <<>>
    ELSE <<[keyword |-> keyword, x |-> item.x, y |-> item.y, text |-> item.text]>>

RECURSIVE HeadersOf(_)
\* the headers list built by the first loop of detectColumnStructure
HeadersOf(items) ==
    IF items = <<>> THEN <<>>
    ELSE HeadersOf(SubSeq(items, 1, Len(items) - 1))
         \o HeaderOf(items[Len(items)], MatchedKeyword(items[Len(items)].text))

\* HeaderColumn changed to take the first header of the keyword
HeaderColumn_first(headers, k) ==
    IF \E i \in 1..Len(headers) : headers[i].keyword = k
    THEN Some(headers[CHOOSE i \in 1..Len(headers) :
                          /\ headers[i].keyword = k
                          /\ \A j \in 1..(i - 1) : headers[j].keyword # k].x)
    ELSE Null

\* the second loop of detectColumnStructure for one column: x of the last
\* header whose keyword is headerKeywords[k], or null
HeaderColumn(headers, k) ==
    IF \E i \in 1..Len(headers) : headers[i].keyword = k
    THEN Some(headers[CHOOSE i \in 1..Len(headers) :
                          /\ headers[i].keyword = k
                          /\ \A j \in (i + 1)..Len(headers) : headers[j].keyword # k].x)
    ELSE Null

BucketWidth == 30

\* Math.round(x / 30) * 30
RoundedX(x) == ((2 * x + BucketWidth) \div (2 * BucketWidth)) * BucketWidth

\* the text with currency signs, commas and white space removed
StripAmountText(text) == Filter(text, CurrencySigns \cup {","} \cup WhiteSpace)

SetMax(S) == CHOOSE m \in S : \A n \in S : n <= m

\* the bucketed x positions of the items that read as currency amounts
AmountPositions(items) ==
    {RoundedX(items[i].x) :
        i \in {j \in 1..Len(items) : currencyPattern(StripAmountText(items[j].text))}}

\* the columns inferColumnPositions takes from the positions
ColumnsOfPositions(xPositions) ==
    IF xPositions = {} THEN [cashIn |-> Null, cashOut |-> Null]
    ELSE IF Cardinality(xPositions) = 1
         THEN [cashIn |-> Null, cashOut |-> Some(SetMax(xPositions))]
    ELSE [cashIn |-> Some(SetMax(xPositions \ {SetMax(xPositions)})),
          cashOut |-> Some(SetMax(xPositions))]

\* inferColumnPositions(items)
inferColumnPositions(items) == ColumnsOfPositions(AmountPositions(items))

\* the column of an amount header, replaced by the inferred column when a
\* header is missing and the inferred one is truthy
AmountColumn(header, inferred, cashInHeader, cashOutHeader) ==
    IF (~Truthy(cashInHeader) \/ ~Truthy(cashOutHeader)) /\ Truthy(inferred)
    THEN inferred ELSE header

\* ColumnStructure changed to call a structure valid when any column is set
ColumnStructure_anyColumn(dateColumn, descColumn, cashInColumn, cashOutColumn, headers) ==
    [hasValidStructure |-> dateColumn.some \/ cashInColumn.some \/ cashOutColumn.some,
     dateColumn |-> dateColumn,
     descColumn |-> descColumn,
     cashInColumn |-> cashInColumn,
     cashOutColumn |-> cashOutColumn,
     headers |-> headers]

\* the structure returned by detectColumnStructure
ColumnStructure(dateColumn, descColumn, cashInColumn, cashOutColumn, headers) ==
    [hasValidStructure |-> dateColumn.some /\ (cashInColumn.some \/ cashOutColumn.some),
     dateColumn |-> dateColumn,
     descColumn |-> descColumn,
     cashInColumn |-> cashInColumn,
     cashOutColumn |-> cashOutColumn,
     headers |-> headers]

\* the second half of detectColumnStructure, from the header columns on
StructureOfHeaders(dateColumn, descColumn, cashInHeader, cashOutHeader, inferredColumns, headers) ==
    ColumnStructure(dateColumn, descColumn,
                    AmountColumn(cashInHeader, inferredColumns.cashIn,
                                 cashInHeader, cashOutHeader),
                    AmountColumn(cashOutHeader, inferredColumns.cashOut,
                                 cashInHeader, cashOutHeader),
                    headers)

\* detectColumnStructure from the headers list on
StructureOfItems(items, headers) ==
    StructureOfHeaders(HeaderColumn(headers, 1), HeaderColumn(headers, 2),
                       HeaderColumn(headers, 3), HeaderColumn(headers, 4),
                       inferColumnPositions(items), headers)

\* detectColumnStructure(items)
detectColumnStructure(items) == StructureOfItems(items, HeadersOf(items))

----------------------------------------------------------------------------
(* Row grouper *)

RowThreshold == 10

RECURSIVE GroupFrom_chained(_, _, _, _)
\* GroupFrom changed to compare a fragment with the fragment before it
GroupFrom_chained(items, rows, currentRow, currentY) ==
    IF items = <<>>
    THEN (IF currentRow # <<>> THEN Append(rows, currentRow) ELSE rows)
    ELSE IF currentRow = <<>> \/ Abs(Head(items).y - currentY) > RowThreshold
         THEN GroupFrom_chained(Tail(items),
                                IF currentRow # <<>> THEN Append(rows, currentRow) ELSE rows,
                                <<Head(items)>>, Head(items).y)
         ELSE GroupFrom_chained(Tail(items), rows, Append(currentRow, Head(items)),
                                Head(items).y)

RECURSIVE GroupFrom(_, _, _, _)
\* the loop of groupItemsIntoRows: rows closed so far, the open row and its y
GroupFrom(items, rows, currentRow, currentY) ==
    IF items = <<>>
    THEN (IF currentRow # <<>> THEN Append(rows, currentRow) ELSE rows)
    ELSE IF currentRow = <<>> \/ Abs(Head(items).y - currentY) > RowThreshold
         THEN GroupFrom(Tail(items),
                        IF currentRow # <<>> THEN Append(rows, currentRow) ELSE rows,
                        <<Head(items)>>, Head(items).y)
         ELSE GroupFrom(Tail(items), rows, Append(currentRow, Head(items)), currentY)

\* groupItemsIntoRows(items)
groupItemsIntoRows(items) == GroupFrom(items, <<>>, <<>>, 0)

----------------------------------------------------------------------------
(* Row-to-transaction parser *)

DateSeparators == {"/", "-", "."}

\* /\d{1,2}[\/\-\.]\d{1,2}[\/\-\.]\d{2,4}/.test(s)
LooseDatePattern(s) ==
    \E p \in 2..Len(s) : \E a \in 1..2 :
        /\ p + a + 3 <= Len(s)
        /\ s[p - 1] \in Digits
        /\ s[p] \in DateSeparators
        /\ AllDigits(s, p + 1, p + a)
        /\ s[p + a + 1] \in DateSeparators
        /\ AllDigits(s, p + a + 2, p + a + 3)

\* Array.prototype.filter over a row, by a predicate on the index set keep
RowFilter(rowItems, keep) ==
    LET idx == {i \in 1..Len(rowItems) : keep[i]}
        F[n \in 0..Len(rowItems)] ==
            IF n = 0 THEN <<>>
            ELSE IF n \in idx THEN Append(F[n - 1], rowItems[n]) ELSE F[n - 1]
    IN  F[Len(rowItems)]

DescAfterDate == 50

DescBeforeAmount == 20

ColumnTolerance == 50

NoColumn == 9999

SpatialConfidence == 9

\* parseCurrencyAmount of the first of the items found, or null
FirstAmount(found) ==
    IF found = <<>> THEN Null ELSE parseCurrencyAmount(found[1].text)

\* ColumnAmount changed to a window twice as wide
ColumnAmount_wide(rowItems, column) ==
    IF ~Truthy(column) THEN Null
    ELSE FirstAmount(RowFilter(rowItems,
             [i \in 1..Len(rowItems) |->
                 /\ Abs(rowItems[i].x - column.val) < 2 * ColumnTolerance
                 /\ HasDigitDot2Digits(StripAmountText(rowItems[i].text))]))

\* the amount found in the window of a column: parseCurrencyAmount of the first
\* currency-like item within ColumnTolerance of the column, or null
ColumnAmount(rowItems, column) ==
    IF ~Truthy(column) THEN Null
    ELSE FirstAmount(RowFilter(rowItems,
             [i \in 1..Len(rowItems) |->
                 /\ Abs(rowItems[i].x - column.val) < ColumnTolerance
                 /\ HasDigitDot2Digits(StripAmountText(rowItems[i].text))]))

\* the texts of the description items joined by spaces and trimmed
DescriptionOf(descItems) ==
    trim(JoinSpace([i \in 1..Len(descItems) |-> descItems[i].text]))

\* TransactionOf changed to prefer the cash-out amount when a row has both
TransactionOf_prefersCashOut(date, description, cashInAmount, cashOutAmount, pageNumber) ==
    IF ~date.some THEN Null
    ELSE Some([date |-> date.val,
               description |-> cleanDescription(description),
               amount |-> Abs(IF Truthy(cashOutAmount) THEN cashOutAmount.val
                              ELSE cashInAmount.val),
               type |-> IF Truthy(cashOutAmount) THEN "Expense" ELSE "Income",
               confidence |-> SpatialConfidence,
               page |-> pageNumber])

\* the transaction object, or null when the date did not normalize.  The
\* labels category and event, taken from keyword tables outside this file, and
\* the diagnostic spatialInfo are left out.
TransactionOf(date, description, cashInAmount, cashOutAmount, pageNumber) ==
    IF ~date.some THEN Null
    ELSE Some([date |-> date.val,
               description |-> cleanDescription(description),
               amount |-> Abs(IF Truthy(cashInAmount) THEN cashInAmount.val
                              ELSE cashOutAmount.val),
               type |-> IF Truthy(cashInAmount) THEN "Income" ELSE "Expense",
               confidence |-> SpatialConfidence,
               page |-> pageNumber])

\* the last step of parseRowWithSpatial: an amount and a description of more
\* than two characters are needed
RowTransaction(dateItem, description, cashInAmount, cashOutAmount, pageNumber, n) ==
    IF (Truthy(cashInAmount) \/ Truthy(cashOutAmount)) /\ Len(description) > 2
    THEN TransactionOf(normalizeDate(dateItem.text, n), description,
                       cashInAmount, cashOutAmount, pageNumber)
    ELSE Null

\* parseRowWithSpatial changed to take the first item of the row for the date
\* item, whatever its text
parseRowWithSpatial_noDateTest(rowItems, columnInfo, pageNumber, n) ==
    RowTransaction(
        rowItems[1],
        DescriptionOf(RowFilter(rowItems,
            [i \in 1..Len(rowItems) |->
                /\ rowItems[i].x > OrElse(columnInfo.dateColumn, 0) + DescAfterDate
                /\ rowItems[i].x < Min(OrElse(columnInfo.cashInColumn, NoColumn),
                                       OrElse(columnInfo.cashOutColumn, NoColumn))
                                   - DescBeforeAmount])),
        ColumnAmount(rowItems, columnInfo.cashInColumn),
        ColumnAmount(rowItems, columnInfo.cashOutColumn),
        pageNumber, n)

\* parseRowWithSpatial(rowItems, columnInfo, pageNumber) on the processing date n:
\* a transaction or null
parseRowWithSpatial(rowItems, columnInfo, pageNumber, n) ==
    IF ~\E i \in 1..Len(rowItems) : LooseDatePattern(rowItems[i].text) THEN Null
    ELSE RowTransaction(
             rowItems[CHOOSE i \in 1..Len(rowItems) :
                          /\ LooseDatePattern(rowItems[i].text)
                          /\ \A j \in 1..(i - 1) : ~LooseDatePattern(rowItems[j].text)],
             DescriptionOf(RowFilter(rowItems,
                 [i \in 1..Len(rowItems) |->
                     /\ rowItems[i].x > OrElse(columnInfo.dateColumn, 0) + DescAfterDate
                     /\ rowItems[i].x < Min(OrElse(columnInfo.cashInColumn, NoColumn),
                                            OrElse(columnInfo.cashOutColumn, NoColumn))
                                        - DescBeforeAmount])),
             ColumnAmount(rowItems, columnInfo.cashInColumn),
             ColumnAmount(rowItems, columnInfo.cashOutColumn),
             pageNumber, n)

\* isValidTransaction changed to leave out the length of the description
isValidTransaction_noLength(transaction) ==
    /\ transaction.date # <<>>
    /\ transaction.description # <<>>
    /\ transaction.amount > 0

\* isValidTransaction(transaction)
isValidTransaction(transaction) ==
    /\ transaction.date # <<>>
    /\ transaction.description # <<>>
    /\ Len(transaction.description) > 2
    /\ transaction.amount > 0

DedupPrefix == 20

\* the key of removeDuplicateTransactions; the template string
\* date-amount-prefix determines the three parts and is determined by them
DedupKey(transaction) ==
    <<transaction.date, transaction.amount, substring0(transaction.description, DedupPrefix)>>

\* removeDuplicateTransactions(transactions): keeps the first of each key
removeDuplicateTransactions(transactions) ==
    LET F[n \in 0..Len(transactions)] ==
            IF n = 0 THEN <<>>
            ELSE IF \E j \in 1..(n - 1) : DedupKey(transactions[j]) = DedupKey(transactions[n])
                 THEN F[n - 1] ELSE Append(F[n - 1], transactions[n])
    IN  F[Len(transactions)]

\* a parsed row as the list of what it adds to the transactions of the page
Pushed(transaction) ==
    IF transaction.some /\ isValidTransaction(transaction.val)
    THEN <<transaction.val>> ELSE <<>>

RECURSIVE RowsToTransactions(_, _, _, _)
\* the loop over the rows in extractTransactionsWithSpatial
RowsToTransactions(rows, columnInfo, pageNum, n) ==
    IF rows = <<>> THEN <<>>
    ELSE Pushed(parseRowWithSpatial(Head(rows), columnInfo, pageNum, n))
         \o RowsToTransactions(Tail(rows), columnInfo, pageNum, n)

\* ChosenColumnInfo changed to prefer the detection of the page when it is valid
ChosenColumnInfo_fresh(items, masterColumnInfo) ==
    IF detectColumnStructure(items).hasValidStructure \/ ~masterColumnInfo.some
    THEN detectColumnStructure(items)
    ELSE masterColumnInfo.val

\* the structure extractTransactionsWithSpatial works with: the master one when
\* it is valid, otherwise the one detected on this page
ChosenColumnInfo(items, masterColumnInfo) ==
    IF masterColumnInfo.some /\ masterColumnInfo.val.hasValidStructure
    THEN masterColumnInfo.val
    ELSE detectColumnStructure(items)

\* extractTransactionsWithSpatial from the chosen structure on: threw is TRUE
\* when it throws for want of a valid structure
ExtractedWith(items, columnInfo, pageNum, n) ==
    IF ~columnInfo.hasValidStructure
    THEN [threw |-> TRUE, transactions |-> <<>>, columnInfo |-> columnInfo]
    ELSE [threw |-> FALSE,
          transactions |-> RowsToTransactions(groupItemsIntoRows(items),
                                              columnInfo, pageNum, n),
          columnInfo |-> columnInfo]

\* extractTransactionsWithSpatial changed to return no transactions, without
\* throwing, when there is no column structure
extractTransactionsWithSpatial_skipsPage(spatialText, pageNum, masterColumnInfo, n) ==
    LET With(columnInfo) ==
            [ExtractedWith(spatialText.items, columnInfo, pageNum, n)
                 EXCEPT !.threw = FALSE]
    IN  With(ChosenColumnInfo(spatialText.items, masterColumnInfo))

\* extractTransactionsWithSpatial changed to throw also when no row of the
\* page gives a transaction
extractTransactionsWithSpatial_emptyThrows(spatialText, pageNum, masterColumnInfo, n) ==
    LET With(result) ==
            [result EXCEPT !.threw = @ \/ result.transactions = <<>>]
    IN  With(ExtractedWith(spatialText.items,
                           ChosenColumnInfo(spatialText.items, masterColumnInfo),
                           pageNum, n))

\* extractTransactionsWithSpatial(spatialText, pageNum, masterColumnInfo)
extractTransactionsWithSpatial(spatialText, pageNum, masterColumnInfo, n) ==
    ExtractedWith(spatialText.items,
                  ChosenColumnInfo(spatialText.items, masterColumnInfo),
                  pageNum, n)

----------------------------------------------------------------------------
(* Documents.  A document is [type, pages]; a page is described by          *)
(* [header, layout, rows, footer]: whether it has the header row, where its  *)
(* columns lie, its data rows and whether it has a footer line.              *)

HeaderTexts ==
    << <<"D","a","t","e">>,
       <<"D","e","s","c","r","i","p","t","i","o","n">>,
       <<"C","a","s","h"," ","I","n">>,
       <<"C","a","s","h"," ","O","u","t">> >>

\* dates: plain, dashes with a two-digit year, letter O for zero,
\* 30 February, a date in 2027, a date written with spaces around the slashes
DateTexts ==
    << <<"1","8","/","0","4","/","2","0","2","5">>,
       <<"5","-","7","-","2","4">>,
       <<"O","5","/","O","7","/","2","O","2","5">>,
       <<"3","0","/","0","2","/","2","0","2","5">>,
       <<"0","1","/","0","1","/","2","0","2","7">>,
       <<"1","8"," ","/"," ","0","4"," ","/"," ","2","0","2","5">> >>

\* descriptions: two ordinary ones, one containing a header keyword, one that
\* is too short, one that cleaning shortens below three characters, one longer
\* than the cap
DescTexts ==
    << <<"W","e","l","s","h"," ","3","0","0","0","s"," ","R","e","g","i","s","t","r","a","t","i","o","n">>,
       <<"T","r","a","n","s","p","o","r","t"," ","-"," ","M","i","n","i","b","u","s"," ","H","i","r","e">>,
       <<"U","p","d","a","t","e"," ","f","e","e">>,
       <<"a","b">>,
       <<"#","a","#","b","#">>,
       [i \in 1..120 |-> IF i % 7 = 0 THEN " " ELSE "x"] >>

\* amounts: plain, with sign and thousands comma, in parentheses, above the
\* ceiling, zero, without decimals
AmountTexts ==
    << <<"1","6","1","0",".","0","0">>,
       <<"GBP","1",",","2","3","4",".","5","6">>,
       <<"(","3","2","0",".","5","0",")">>,
       <<"6","0","0","0","0",".","0","0">>,
       <<"0",".","0","0">>,
       <<"1","2","3">> >>

FooterText == <<"P","a","g","e"," ","1"," ","o","f"," ","3">>

\* column positions [date, desc, cashIn, cashOut] of a page
Layouts ==
    << [date |-> 50, desc |-> 150, cashIn |-> 400, cashOut |-> 480],
       [date |-> 40, desc |-> 120, cashIn |-> 300, cashOut |-> 380],
       [date |-> 50, desc |-> 95, cashIn |-> 400, cashOut |-> 480],
       [date |-> 50, desc |-> 150, cashIn |-> 400, cashOut |-> 440] >>

\* where the lines of a page are drawn: y of the header row, distance between
\* rows, position of the footer
Geometry == [headerY |-> 700, rowPitch |-> 20, footerY |-> 40, footerX |-> 280]

\* the fragments of the header row
HeaderItems(layout) ==
    << [text |-> HeaderTexts[4], x |-> Layouts[layout].cashOut, y |-> Geometry.headerY],
       [text |-> HeaderTexts[2], x |-> Layouts[layout].desc, y |-> Geometry.headerY],
       [text |-> HeaderTexts[1], x |-> Layouts[layout].date, y |-> Geometry.headerY],
       [text |-> HeaderTexts[3], x |-> Layouts[layout].cashIn, y |-> Geometry.headerY] >>

\* the fragments of data row number i of a page: amount, description, date
RowItems(layout, row, i) ==
    LET y == Geometry.headerY - Geometry.rowPitch * i
    IN  << [text |-> AmountTexts[row.amt],
            x |-> IF row.side = "in" THEN Layouts[layout].cashIn ELSE Layouts[layout].cashOut,
            y |-> y],
           [text |-> DescTexts[row.desc], x |-> Layouts[layout].desc, y |-> y],
           [text |-> DateTexts[row.date], x |-> Layouts[layout].date, y |-> y] >>

RECURSIVE AllRowItems(_, _, _)
AllRowItems(layout, rows, i) ==
    IF i > Len(rows) THEN <<>>
    ELSE AllRowItems(layout, rows, i + 1) \o RowItems(layout, rows[i], i)

\* the text content the page reader returns for a page, in reading-layer order
PageItems(page) ==
    (IF page.footer THEN << [text |-> FooterText, x |-> Geometry.footerX, y |-> Geometry.footerY] >> ELSE <<>>)
    \o AllRowItems(page.layout, page.rows, 1)
    \o (IF page.header THEN HeaderItems(page.layout) ELSE <<>>)

Row(date, desc, amt, side) == [date |-> date, desc |-> desc, amt |-> amt, side |-> side]

Page(header, layout, rows, footer) ==
    [header |-> header, layout |-> layout, rows |-> rows, footer |-> footer]

\* page templates: header page, continuation page without header that repeats
\* a row, header page with another layout, its continuation, a page without
\* fragments, a page with a footer line only
Templates ==
    { Page(TRUE, 1, <<Row(1, 1, 1, "in"), Row(1, 2, 3, "out")>>, TRUE),
      Page(FALSE, 1, <<Row(1, 1, 1, "in"), Row(2, 2, 2, "out"), Row(1, 1, 1, "in")>>, FALSE),
      Page(TRUE, 2, <<Row(1, 1, 1, "in")>>, FALSE),
      Page(FALSE, 2, <<Row(1, 2, 3, "out")>>, FALSE),
      Page(FALSE, 1, <<>>, FALSE),
      Page(FALSE, 1, <<>>, TRUE) }

RowSpecs ==
    { Row(d, t, a, s) : d \in 1..Len(DateTexts), t \in 1..Len(DescTexts),
                        a \in 1..Len(AmountTexts), s \in {"in", "out"} }

PdfType == "application/pdf"

MaxDocPages == 3

MaxExtraPages == 1

MaxPagesLimit == 10

\* documents of one header page with one data row: every row on the first
\* layout, the rows with the plain date on the others
SingleRowDocs ==
    { [type |-> PdfType, pages |-> <<Page(TRUE, c[1], <<c[2]>>, FALSE)>>] :
          c \in {d \in (1..Len(Layouts)) \X RowSpecs : d[1] = 1 \/ d[2].date = 1} }

\* documents of up to MaxDocPages template pages
TemplateDocs ==
    { [type |-> PdfType, pages |-> ps] :
          ps \in UNION { [1..n -> Templates] : n \in 1..MaxDocPages } }

LongPages(n) ==
    [i \in 1..n |-> IF i = 1 THEN Page(TRUE, 1, <<Row(1, 1, 1, "in")>>, TRUE)
                    ELSE Page(FALSE, 1, <<Row(1, 2, 3, "out")>>, TRUE)]

\* documents around the page limit
LongDocs ==
    { [type |-> PdfType, pages |-> LongPages(n)] :
          n \in (MaxPagesLimit - 1)..(MaxPagesLimit + MaxExtraPages) }

\* documents of the page counts between the template documents and the
\* documents around the page limit
MiddleDocs ==
    { [type |-> PdfType, pages |-> LongPages(n)] :
          n \in (MaxDocPages + 1)..(MaxPagesLimit - 2) }

NonPdfDocs == { [type |-> "image/png", pages |-> LongPages(1)] }

Docs == SingleRowDocs \cup TemplateDocs \cup MiddleDocs \cup LongDocs \cup NonPdfDocs

\* documents of overlapping runs: one page; two pages; three pages with two
\* layouts; a page without structure; a page without fragments; not a PDF
ConcDocs ==
    { [type |-> PdfType, pages |-> <<Page(TRUE, 1, <<Row(1, 1, 1, "in"), Row(4, 1, 1, "in")>>, FALSE)>>],
      [type |-> PdfType, pages |-> <<Page(TRUE, 2, <<Row(1, 1, 1, "in")>>, FALSE),
                                     Page(FALSE, 2, <<Row(1, 2, 3, "out")>>, FALSE)>>],
      [type |-> PdfType, pages |-> <<Page(TRUE, 1, <<Row(1, 2, 3, "out")>>, TRUE),
                                     Page(TRUE, 2, <<Row(1, 1, 1, "in")>>, FALSE),
                                     Page(FALSE, 2, <<Row(2, 2, 2, "out")>>, FALSE)>>],
      [type |-> PdfType, pages |-> <<Page(FALSE, 1, <<Row(1, 1, 1, "in")>>, TRUE)>>],
      [type |-> PdfType, pages |-> <<Page(TRUE, 1, <<Row(4, 1, 2, "in")>>, FALSE),
                                     Page(FALSE, 1, <<>>, FALSE)>>],
      [type |-> "image/png", pages |-> LongPages(1)] }

\* the documents a call may be given, by the name of the pool
PoolDocs(pool) == IF pool = "all" THEN Docs ELSE ConcDocs

NoDoc == [type |-> "", pages |-> <<>>]

\* processing dates
NowDates == { [y |-> 2025, m |-> 6, d |-> 1], [y |-> 2023, m |-> 6, d |-> 1] }

MaxRuns == 2

Runs == 1..MaxRuns

----------------------------------------------------------------------------
(* The processor and its runs.  A run is one call of processDocument; its    *)
(* pc is the await it is suspended at.  The fullText of the result and the   *)
(* texts of the progress messages are not part of the run record.  The       *)
(* progress fractions of a run are kept in the order in which updateProgress *)
(* hands them to the progress callback, which is taken to be set.  They are  *)
(* computed exactly, in units of 1 / ProgressScale; the doubles of the code  *)
(* are within 1e-15 of these values.                                         *)

NoError == [kind |-> "none", page |-> 0]

Error(kind, page) == [kind |-> kind, page |-> page]

IdleRun ==
    [pc |-> "idle", file |-> NoDoc, processingId |-> 0, pageNum |-> 0, maxPages |-> 0,
     masterColumnInfo |-> Null, allTransactions |-> <<>>, pagesRead |-> <<>>,
     progress |-> <<>>, error |-> NoError, result |-> Null]

\* the unit of the progress fractions: 1.0 is ProgressScale, and 0.1 and
\* 0.7 * (pageNum - 1) / maxPages are whole numbers of units for 1 to 10 pages
ProgressScale == 25200

\* k tenths as a progress fraction
Tenths(k) == k * (ProgressScale \div 10)

\* updateProgress(message, progress) with a progress callback set
updateProgress(run, progress) == [run EXCEPT !.progress = Append(@, progress)]

\* 0.2 + ((pageNum - 1) / maxPages) * 0.7
BaseProgress(pageNum, maxPages) == Tenths(2) + ((pageNum - 1) * Tenths(7)) \div maxPages

\* the constructor, under the sequential and under the overlapping use
InitCommon ==
    /\ currentProcessingId = 0
    /\ pdfjsLoaded \in BOOLEAN
    /\ now \in NowDates
    /\ runs = [r \in Runs |-> IdleRun]

\* no call of a single function of the processor is under way
NoCall == [fn |-> "none", arg |-> <<>>, returned |-> FALSE, value |-> Null]

Init ==
    /\ InitCommon
    /\ activeRuns = {1}
    /\ docPool = "all"
    /\ call = NoCall

InitConc ==
    /\ InitCommon
    /\ activeRuns = Runs
    /\ docPool = "overlap"
    /\ call = NoCall

\* Throw changed to hand the transactions accumulated so far to the caller
\* together with the error
Throw_partialResult(run, kind, page) ==
    [run EXCEPT !.pc = "failed", !.error = Error(kind, page),
                !.result = Some([transactions |-> run.allTransactions,
                                 totalTransactions |-> Len(run.allTransactions),
                                 pagesProcessed |-> run.maxPages])]

\* an error leaves the run: the caller of processDocument gets the error and
\* nothing else
Throw(run, kind, page) == [run EXCEPT !.pc = "failed", !.error = Error(kind, page)]

\* the result object built after the page loop
ResultOf(run) ==
    [transactions |-> run.allTransactions,
     totalTransactions |-> Len(run.allTransactions),
     pagesProcessed |-> run.maxPages]

\* IsCancelled changed to never see a cancellation
IsCancelled_never(run, currentId) == FALSE

\* the cancellation test at the top of the page loop
IsCancelled(run, currentId) == currentId # run.processingId

\* LoopHead changed to test for cancellation before the first page only
LoopHead_firstPageOnly(run, pageNum, currentId) ==
    IF pageNum <= run.maxPages
    THEN IF pageNum = 1 /\ IsCancelled(run, currentId)
         THEN Throw([run EXCEPT !.pageNum = pageNum], "Cancelled", pageNum)
         ELSE updateProgress([run EXCEPT !.pc = "getPage", !.pageNum = pageNum,
                                         !.pagesRead = Append(@, pageNum)],
                             BaseProgress(pageNum, run.maxPages))
    ELSE updateProgress(updateProgress([run EXCEPT !.pc = "done", !.pageNum = pageNum,
                                                   !.result = Some(ResultOf(run))],
                                       Tenths(9)),
                        Tenths(10))

\* the head of the page loop for page pageNum, up to the await of getPage,
\* or the code after the loop
LoopHead(run, pageNum, currentId) ==
    IF pageNum <= run.maxPages
    THEN IF IsCancelled(run, currentId)
         THEN Throw([run EXCEPT !.pageNum = pageNum], "Cancelled", pageNum)
         ELSE updateProgress([run EXCEPT !.pc = "getPage", !.pageNum = pageNum,
                                         !.pagesRead = Append(@, pageNum)],
                             BaseProgress(pageNum, run.maxPages))
    ELSE updateProgress(updateProgress([run EXCEPT !.pc = "done", !.pageNum = pageNum,
                                                   !.result = Some(ResultOf(run))],
                                       Tenths(9)),
                        Tenths(10))

\* NextMaster changed to leave the master column info as it was
NextMaster_notCarried(masterColumnInfo, result) == masterColumnInfo

\* the master column info after a page whose extraction returned result
NextMaster(masterColumnInfo, result) ==
    IF result.columnInfo.hasValidStructure THEN Some(result.columnInfo) ELSE masterColumnInfo

\* the page loop after the extraction of the page returned result: the master
\* column info and the transactions are updated and the loop goes on
PageExtracted(run, result, currentId) ==
    IF result.threw THEN Throw(run, "NoStructure", run.pageNum)
    ELSE LoopHead([run EXCEPT
                      !.masterColumnInfo = NextMaster(@, result),
                      !.allTransactions = @ \o result.transactions],
                  run.pageNum + 1, currentId)

\* the page loop from the spatial text on, with the master column info given
PageRead(run, spatialText, masterColumnInfo, currentId, n) ==
    IF Len(spatialText.items) = 0 THEN Throw(run, "NoText", run.pageNum)
    ELSE PageExtracted(updateProgress(run, BaseProgress(run.pageNum, run.maxPages)
                                           + Tenths(1)),
                       extractTransactionsWithSpatial(spatialText, run.pageNum,
                                                      masterColumnInfo, n),
                       currentId)

\* PageBody changed to keep the master column info on the processor, where
\* the run that started last has put its own
PageBody_sharedMaster(run, textContent, currentId, n) ==
    PageRead(run, extractSpatialText(textContent, run.pageNum),
             runs[currentId].masterColumnInfo, currentId, n)

\* the body of the page loop from the text content on, then the next head
PageBody(run, textContent, currentId, n) ==
    PageRead(run, extractSpatialText(textContent, run.pageNum),
             run.masterColumnInfo, currentId, n)

\* the run of processDocument(file) up to its first await, or to the error
\* thrown for a file that is not a PDF
Started(run, file, loaded) ==
    IF file.type # PdfType
    THEN Throw(updateProgress([run EXCEPT !.file = file], 0), "NotPdf", 0)
    ELSE IF ~loaded
    THEN updateProgress(updateProgress([run EXCEPT !.file = file, !.pc = "loadLib"], 0),
                        Tenths(1))
    ELSE updateProgress(updateProgress([run EXCEPT !.file = file, !.pc = "readFile"], 0),
                        Tenths(1))

\* processDocument(file) is called: run r takes the next processing id
ProcessDocument(r) ==
    /\ r \in activeRuns
    /\ r = currentProcessingId + 1
    /\ runs[r].pc = "idle"
    /\ currentProcessingId' = currentProcessingId + 1
    /\ \E file \in PoolDocs(docPool) :
           runs' = [runs EXCEPT ![r] =
               Started([@ EXCEPT !.processingId = currentProcessingId + 1],
                       file, pdfjsLoaded)]
    /\ UNCHANGED <<pdfjsLoaded, now, activeRuns, docPool, call>>

\* the script of loadPDFJS has loaded
LibraryLoaded(r) ==
    /\ runs[r].pc = "loadLib"
    /\ pdfjsLoaded' = TRUE
    /\ runs' = [runs EXCEPT ![r].pc = "readFile"]
    /\ UNCHANGED <<currentProcessingId, now, activeRuns, docPool, call>>

\* file.arrayBuffer() has resolved
FileRead(r) ==
    /\ runs[r].pc = "readFile"
    /\ runs' = [runs EXCEPT ![r].pc = "openDoc"]
    /\ UNCHANGED <<currentProcessingId, pdfjsLoaded, now, activeRuns, docPool, call>>

\* MaxPagesOf changed to take every page of the document
MaxPagesOf_unbounded(numPages) == numPages

\* Math.min(pdf.numPages, 10)
MaxPagesOf(numPages) == Min(numPages, MaxPagesLimit)

\* getDocument has resolved: the page loop starts
DocumentOpened(r) ==
    /\ runs[r].pc = "openDoc"
    /\ LET numPages == Len(runs[r].file.pages)
           opened == updateProgress([runs[r] EXCEPT !.maxPages = MaxPagesOf(numPages)],
                                    Tenths(2))
       IN  runs' = [runs EXCEPT ![r] = LoopHead(opened, 1, currentProcessingId)]
    /\ UNCHANGED <<currentProcessingId, pdfjsLoaded, now, activeRuns, docPool, call>>

\* pdf.getPage(pageNum) has resolved
PageObtained(r) ==
    /\ runs[r].pc = "getPage"
    /\ runs' = [runs EXCEPT ![r].pc = "getText"]
    /\ UNCHANGED <<currentProcessingId, pdfjsLoaded, now, activeRuns, docPool, call>>

\* page.getTextContent() has resolved: the page is extracted and the loop goes on
TextContentObtained(r) ==
    /\ runs[r].pc = "getText"
    /\ runs' = [runs EXCEPT ![r] =
           PageBody(runs[r], PageItems(runs[r].file.pages[runs[r].pageNum]),
                    currentProcessingId, now)]
    /\ UNCHANGED <<currentProcessingId, pdfjsLoaded, now, activeRuns, docPool, call>>

\* the error kind of a rejected await
RejectionKind(pc) ==
    IF pc = "loadLib" THEN "LoadLibraryFailed"
    ELSE IF pc = "readFile" THEN "FileReadFailed"
    ELSE IF pc = "openDoc" THEN "OpenDocumentFailed"
    ELSE IF pc = "getPage" THEN "GetPageFailed"
    ELSE "GetTextContentFailed"

AwaitPcs == {"loadLib", "readFile", "openDoc", "getPage", "getText"}

\* the promise run r awaits is rejected
AwaitRejected(r) ==
    /\ runs[r].pc \in AwaitPcs
    /\ runs' = [runs EXCEPT ![r] = Throw(@, RejectionKind(@.pc), @.pageNum)]
    /\ UNCHANGED <<currentProcessingId, pdfjsLoaded, now, activeRuns, docPool, call>>

Next ==
    \/ \E r \in Runs : ProcessDocument(r)
    \/ \E r \in Runs : LibraryLoaded(r)
    \/ \E r \in Runs : FileRead(r)
    \/ \E r \in Runs : DocumentOpened(r)
    \/ \E r \in Runs : PageObtained(r)
    \/ \E r \in Runs : TextContentObtained(r)
    \/ \E r \in Runs : AwaitRejected(r)

Spec == Init /\ [][Next]_vars

SpecConc == InitConc /\ [][Next]_vars

----------------------------------------------------------------------------
(* Direct calls of the token normalizer and of the detector.  Amounts are   *)
(* written from a number of pence, dates from day, month and year, so that   *)
(* what a call returns can be compared with what was written.                *)

\* amounts in pence around the limits of the range and of the digit count
PenceValues ==
    {0, 1, 2, 99, 100, 1250, 123456, 4999999, 5000000, 5000001, 99999999, 100000000}

\* the amount of p pence written with two decimals
AmountText(p) == NatToText(p \div 100) \o <<".">> \o Pad2(p % 100)

RECURSIVE WithThousands(_)
\* a string of digits with a comma before every group of three
WithThousands(s) ==
    IF Len(s) <= 3 THEN s
    ELSE WithThousands(SubSeq(s, 1, Len(s) - 3)) \o <<",">> \o SubSeq(s, Len(s) - 2, Len(s))

AmountStyles == {"plain", "pound", "thousands", "parentheses", "minus"}

\* the amount of p pence as a statement prints it
StyledAmount(p, style) ==
    IF style = "pound" THEN <<"GBP">> \o AmountText(p)
    ELSE IF style = "thousands"
         THEN WithThousands(NatToText(p \div 100)) \o <<".">> \o Pad2(p % 100)
    ELSE IF style = "parentheses" THEN <<"(">> \o AmountText(p) \o <<")">>
    ELSE IF style = "minus" THEN <<"-">> \o AmountText(p)
    ELSE AmountText(p)

PlainAmountInputs == { StyledAmount(p, st) : p \in PenceValues, st \in AmountStyles }

\* digits before and after a single comma
CommaIntParts ==
    { <<>>, <<"0">>, <<"1","2">>, <<"1","2","3">>, <<"1","2","3","4","5","6">>,
      <<"1","2","3","4","5","6","7">>, <<"5","0","0","0","0">>, <<"6","0","0","0","0">> }

CommaFracParts == { <<>>, <<"3">>, <<"3","4">>, <<"0","0">>, <<"3","4","5">> }

\* texts of digits and one comma, without a dot
CommaOnlyInputs == { a \o <<",">> \o b : a \in CommaIntParts, b \in CommaFracParts }

\* texts of digits with commas and dots
CommaAndDotInputs ==
    { <<"1",",","2","3","4",".","5","6">>,
      <<"1",".","2","3","4",",","5","6">>,
      <<"1","2",",","3","4","5",".","6","7">>,
      <<"1","2",".","3","4","5",",","6","7">>,
      <<"1",",","2","3","4",",","5","6","7",".","8","9">>,
      <<"1",".","2","3","4",".","5","6","7",",","8","9">>,
      <<"4","9",",","9","9","9",".","9","9">>,
      <<"5","0",",","0","0","0",".","0","0">>,
      <<"5","0",".","0","0","0",",","0","0">>,
      <<"5","0",",","0","0","0",".","0","1">>,
      <<"1",",","2","3","4",".","5">>,
      <<"1",".","2","3","4",",","5">>,
      <<"1",",","2",".","5","0">> }

AmountInputs == PlainAmountInputs \cup CommaOnlyInputs \cup CommaAndDotInputs

DateDays == {1, 2, 28, 29, 30, 31}

DateMonths == 1..12

DateYears == {1899, 1900, 2024, 2025, 2026, 2027, 2028, 2100, 2101}

\* DD/MM/YYYY
CanonicalDateText(d, m, y) ==
    Pad2(d) \o <<"/">> \o Pad2(m) \o <<"/">> \o NatToText(y)

\* D-M-YY, for a year of this century
ShortDateText(d, m, y) ==
    NatToText(d) \o <<"-">> \o NatToText(m) \o <<"-">> \o Pad2(y % 100)

DateInputs ==
    { CanonicalDateText(d, m, y) : d \in DateDays, m \in DateMonths, y \in DateYears }
    \cup { ShortDateText(d, m, y) : d \in DateDays, m \in DateMonths,
                                   y \in {z \in DateYears : z >= 2000 /\ z <= 2050} }

\* the digits written before the first separator, between the two
\* separators and after the second one
FirstParts ==
    { <<>>, <<"0">>, <<"1">>, <<"0","4">>, <<"1","2">>, <<"1","3">>,
      <<"3","0">>, <<"3","1">>, <<"3","2">> }

SecondParts ==
    { <<>>, <<"0">>, <<"2">>, <<"0","4">>, <<"1","2">>, <<"1","3">>, <<"3","1">> }

YearParts ==
    { <<>>, <<"2","4">>, <<"5","0">>, <<"5","1">>, <<"9","9">>, <<"1","8","9","9">>,
      <<"1","9","0","0">>, <<"2","0","2","5">>, <<"2","1","0","0">>, <<"2","1","0","1">> }

RECURSIVE PartsText(_, _)
\* the parts written one after the other with the separator between them
PartsText(parts, sep) ==
    IF Len(parts) = 1 THEN parts[1]
    ELSE parts[1] \o <<sep>> \o PartsText(Tail(parts), sep)

\* a text as a scan renders it, with letters in the place of digits
OcrText(t) ==
    [i \in 1..Len(t) |-> IF t[i] = "0" THEN "O"
                          ELSE IF t[i] = "1" THEN "l"
                          ELSE IF t[i] = "5" THEN "S"
                          ELSE IF t[i] = "2" THEN "Z"
                          ELSE IF t[i] = "6" THEN "G"
                          ELSE t[i]]

\* texts of one, two and four parts
OtherPartCounts ==
    { << <<"1","8">> >>,
      << <<"1","8">>, <<"0","4">> >>,
      << <<"1","8">>, <<"0","4">>, <<"2","0","2","5">>, <<"1">> >>,
      << <<"1","8">>, <<"0","4">>, <<"2","0","2","5">>, <<>> >> }

PartsInputs ==
    { PartsText(<<a, b, c>>, sep) :
          a \in FirstParts, b \in SecondParts, c \in YearParts, sep \in DateSeparators }
    \cup { OcrText(PartsText(<<a, b, c>>, "/")) :
               a \in FirstParts, b \in SecondParts, c \in YearParts }
    \cup { PartsText(ps, sep) : ps \in OtherPartCounts, sep \in DateSeparators }

\* processing dates of the direct calls: those of the runs and a 29 February
CallNowDates == NowDates \cup { [y |-> 2024, m |-> 2, d |-> 29] }

\* positions of the four headers: an ordinary row, the columns in reverse
\* order, a header at the left edge of the page (x = 0) for each column
HeaderLayouts ==
    { [date |-> 50, desc |-> 150, cashIn |-> 400, cashOut |-> 480],
      [date |-> 480, desc |-> 400, cashIn |-> 150, cashOut |-> 50],
      [date |-> 0, desc |-> 150, cashIn |-> 400, cashOut |-> 480],
      [date |-> 60, desc |-> 0, cashIn |-> 400, cashOut |-> 480],
      [date |-> 60, desc |-> 160, cashIn |-> 0, cashOut |-> 480],
      [date |-> 60, desc |-> 160, cashIn |-> 400, cashOut |-> 0] }

\* the header row at the positions l
HeaderRow(l) ==
    << [text |-> HeaderTexts[1], x |-> l.date, y |-> Geometry.headerY],
       [text |-> HeaderTexts[2], x |-> l.desc, y |-> Geometry.headerY],
       [text |-> HeaderTexts[3], x |-> l.cashIn, y |-> Geometry.headerY],
       [text |-> HeaderTexts[4], x |-> l.cashOut, y |-> Geometry.headerY] >>

\* a fragment of the first data line
DataItem(text, x) == [text |-> text, x |-> x, y |-> Geometry.headerY - Geometry.rowPitch]

\* what else is on a page with a header row: nothing, an amount, a data row,
\* a data row whose description contains a header keyword, a footer
OtherFragments ==
    { <<>>,
      << DataItem(AmountTexts[1], 400) >>,
      << DataItem(DateTexts[1], 50), DataItem(DescTexts[1], 150), DataItem(AmountTexts[1], 400) >>,
      << DataItem(DateTexts[1], 50), DataItem(DescTexts[3], 150), DataItem(AmountTexts[1], 480) >>,
      << [text |-> FooterText, x |-> Geometry.footerX, y |-> Geometry.footerY] >> }

HeaderPageInputs == { SortItems(HeaderRow(l) \o o) : l \in HeaderLayouts, o \in OtherFragments }

\* x of the amounts of a page without cash-in and cash-out headers
AmountXs == {10, 14, 15, 100, 110, 130, 300, 480}

MaxAmountFragments == 3

RECURSIVE AmountsAt(_)
\* strict currency fragments at the positions S, one line
AmountsAt(S) ==
    IF S = {} THEN <<>>
    ELSE <<DataItem(AmountText(1250), SetMax(S))>> \o AmountsAt(S \ {SetMax(S)})

\* a page without cash-in and cash-out headers: with or without the Date
\* header, with or without a number that is no currency amount
HeaderlessPage(S, dated, numbered) ==
    (IF dated THEN << [text |-> HeaderTexts[1], x |-> 50, y |-> Geometry.headerY] >> ELSE <<>>)
    \o AmountsAt(S)
    \o (IF numbered THEN << DataItem(AmountTexts[6], 600) >> ELSE <<>>)

HeaderlessPageInputs ==
    { SortItems(HeaderlessPage(S, dated, numbered)) :
          S \in {T \in SUBSET AmountXs : Cardinality(T) <= MaxAmountFragments},
          dated \in BOOLEAN, numbered \in BOOLEAN }

\* the structures a row is parsed with: the four columns apart, the amount
\* columns closer than their windows are wide, one amount column only
RowColumnInfos ==
    { ColumnStructure(Some(50), Some(150), Some(400), Some(480), <<>>),
      ColumnStructure(Some(50), Some(150), Some(400), Some(440), <<>>),
      ColumnStructure(Some(50), Some(150), Some(400), Null, <<>>),
      ColumnStructure(Some(50), Some(150), Null, Some(480), <<>>) }

\* the amounts printed in a row, each with the value it stands for in pence
\* (0 for an amount above the ceiling)
RowAmountTable ==
    { [text |-> StyledAmount(1250, "plain"), value |-> 1250],
      [text |-> StyledAmount(161000, "parentheses"), value |-> 0 - 161000],
      [text |-> StyledAmount(6000000, "plain"), value |-> 0] }

RowAmountTexts == { a.text : a \in RowAmountTable }

\* x of the amounts of a row: left of the cash-in column by less than its
\* window, in the column, between the two columns, in the cash-out column,
\* right of every window
RowAmountXs == {375, 400, 440, 480, 530}

MaxRowAmounts == 2

\* a row has no date, a date, or a date that is none of the calendar
RowDateTexts == { <<>>, DateTexts[1], DateTexts[4] }

\* a row has no description, a description, or one that is too short
RowDescTexts == { <<>>, DescTexts[1], DescTexts[4] }

RECURSIVE AmountFragments(_)
\* the amount fragments of a row, from left to right; f gives the text at each x
AmountFragments(f) ==
    IF DOMAIN f = {} THEN <<>>
    ELSE AmountFragments([x \in (DOMAIN f) \ {SetMax(DOMAIN f)} |-> f[x]])
         \o <<DataItem(f[SetMax(DOMAIN f)], SetMax(DOMAIN f))>>

\* the fragments of a row, from left to right
RowOf(date, desc, f) ==
    (IF date # <<>> THEN <<DataItem(date, 50)>> ELSE <<>>)
    \o (IF desc # <<>> THEN <<DataItem(desc, 150)>> ELSE <<>>)
    \o AmountFragments(f)

RowInputs ==
    { [rowItems |-> RowOf(date, desc, f), columnInfo |-> c, pageNumber |-> 1] :
          date \in RowDateTexts, desc \in RowDescTexts, c \in RowColumnInfos,
          f \in UNION { [X -> RowAmountTexts] :
                            X \in {Y \in SUBSET RowAmountXs : Cardinality(Y) <= MaxRowAmounts} } }

\* where the fragments of a page of text lie: two columns; lines at 700 and
\* 698 (one visual line), 692 (within 10 of both), 684 (within 10 of 692 but
\* not of 700) and 250.  Only 700 and 698 are less than 5 apart, so that the
\* comparator of the sort is an ordering of the fragments.
FragmentPlaces ==
    << [x |-> 50, y |-> 700], [x |-> 400, y |-> 700],
       [x |-> 50, y |-> 698], [x |-> 400, y |-> 698],
       [x |-> 50, y |-> 692], [x |-> 400, y |-> 692],
       [x |-> 50, y |-> 684], [x |-> 400, y |-> 684],
       [x |-> 50, y |-> 250], [x |-> 400, y |-> 250] >>

MaxFragments == 4

RECURSIVE FragmentsAt(_)
\* fragments at the places S, in the order of FragmentPlaces
FragmentsAt(S) ==
    IF S = {} THEN <<>>
    ELSE Append(FragmentsAt(S \ {SetMax(S)}),
                [text |-> DescTexts[1], x |-> FragmentPlaces[SetMax(S)].x,
                 y |-> FragmentPlaces[SetMax(S)].y])

\* Array.prototype.reverse
Reversed(s) == [i \in 1..Len(s) |-> s[Len(s) + 1 - i]]

\* the text content of a page as the page reader may hand it over: the
\* fragments in the one or in the other order
TextContents ==
    { FragmentsAt(S) : S \in {T \in SUBSET (1..Len(FragmentPlaces)) : Cardinality(T) <= MaxFragments} }
    \cup { Reversed(FragmentsAt(S)) :
               S \in {T \in SUBSET (1..Len(FragmentPlaces)) : Cardinality(T) <= MaxFragments} }

\* where the one amount header of a page stands
OneHeaderX == [in |-> 400, out |-> 470]

\* x of the amounts of a page with one amount header
OneHeaderAmountXs == {300, 400, 470}

\* a page with the headers Date and Description and one of the two amount
\* headers, Cash In (which = "in") or Cash Out (which = "out"), and strict
\* currency fragments at the positions S
OneHeaderPage(which, S) ==
    << [text |-> HeaderTexts[1], x |-> 50, y |-> Geometry.headerY],
       [text |-> HeaderTexts[2], x |-> 150, y |-> Geometry.headerY],
       [text |-> HeaderTexts[IF which = "in" THEN 3 ELSE 4], x |-> OneHeaderX[which],
        y |-> Geometry.headerY] >>
    \o AmountsAt(S)

OneHeaderPageInputs ==
    { SortItems(OneHeaderPage(which, S)) :
          which \in {"in", "out"},
          S \in {T \in SUBSET OneHeaderAmountXs : Cardinality(T) <= MaxAmountFragments} }

\* fragments below the header row whose text holds a header keyword: a
\* description with 'date' in it, the headers once more, a text with two
\* keywords, the word Amount
KeywordFragments ==
    { [text |-> DescTexts[3], x |-> 150, y |-> 680],
      [text |-> HeaderTexts[1], x |-> 300, y |-> 660],
      [text |-> HeaderTexts[2], x |-> 200, y |-> 640],
      [text |-> HeaderTexts[3], x |-> 350, y |-> 620],
      [text |-> HeaderTexts[4], x |-> 520, y |-> 600],
      [text |-> <<"U","p","d","a","t","e"," ","d","e","s","c","r","i","p","t","i","o","n">>,
       x |-> 250, y |-> 580],
      [text |-> <<"A","m","o","u","n","t">>, x |-> 600, y |-> 560] }

MaxKeywordFragments == 3

RECURSIVE InSomeOrder(_)
\* the elements of a set in a sequence
InSomeOrder(S) ==
    IF S = {} THEN <<>>
    ELSE <<CHOOSE e \in S : TRUE>> \o InSomeOrder(S \ {CHOOSE e \in S : TRUE})

\* pages with the header row and fragments holding keywords below it
KeywordPageInputs ==
    { SortItems(HeaderRow([date |-> 50, desc |-> 150, cashIn |-> 400, cashOut |-> 480])
                \o InSomeOrder(S)) :
          S \in {T \in SUBSET KeywordFragments : Cardinality(T) <= MaxKeywordFragments} }

\* a call that has not returned yet
Call(fn, arg) == [fn |-> fn, arg |-> arg, returned |-> FALSE, value |-> Null]

Calls ==
    { Call("parseCurrencyAmount", a) : a \in AmountInputs }
    \cup { Call("normalizeDate", d) : d \in DateInputs \cup PartsInputs }
    \cup { Call("detectColumnStructure", i) : i \in HeaderPageInputs \cup HeaderlessPageInputs
                                                      \cup OneHeaderPageInputs
                                                      \cup KeywordPageInputs }
    \cup { Call("parseRowWithSpatial", a) : a \in RowInputs }
    \cup { Call("extractSpatialText", [textContent |-> t, pageNum |-> 1]) : t \in TextContents }

\* one function of the processor is called directly, no document is processed
InitCall ==
    /\ currentProcessingId = 0
    /\ pdfjsLoaded = FALSE
    /\ now \in CallNowDates
    /\ runs = [r \in Runs |-> IdleRun]
    /\ activeRuns = {}
    /\ docPool = "all"
    /\ call \in Calls

\* parseCurrencyAmount(call.arg) returns
ParseCurrencyAmountReturns ==
    /\ call.fn = "parseCurrencyAmount"
    /\ ~call.returned
    /\ call' = [call EXCEPT !.returned = TRUE, !.value = parseCurrencyAmount(call.arg)]
    /\ UNCHANGED <<currentProcessingId, pdfjsLoaded, now, runs, activeRuns, docPool>>

\* normalizeDate(call.arg) returns
NormalizeDateReturns ==
    /\ call.fn = "normalizeDate"
    /\ ~call.returned
    /\ call' = [call EXCEPT !.returned = TRUE, !.value = normalizeDate(call.arg, now)]
    /\ UNCHANGED <<currentProcessingId, pdfjsLoaded, now, runs, activeRuns, docPool>>

\* detectColumnStructure(call.arg) returns
DetectColumnStructureReturns ==
    /\ call.fn = "detectColumnStructure"
    /\ ~call.returned
    /\ call' = [call EXCEPT !.returned = TRUE, !.value = Some(detectColumnStructure(call.arg))]
    /\ UNCHANGED <<currentProcessingId, pdfjsLoaded, now, runs, activeRuns, docPool>>

\* parseRowWithSpatial(rowItems, columnInfo, pageNumber) returns
ParseRowWithSpatialReturns ==
    /\ call.fn = "parseRowWithSpatial"
    /\ ~call.returned
    /\ call' = [call EXCEPT !.returned = TRUE,
                            !.value = parseRowWithSpatial(call.arg.rowItems, call.arg.columnInfo,
                                                          call.arg.pageNumber, now)]
    /\ UNCHANGED <<currentProcessingId, pdfjsLoaded, now, runs, activeRuns, docPool>>

\* extractSpatialText(textContent, pageNum) returns
ExtractSpatialTextReturns ==
    /\ call.fn = "extractSpatialText"
    /\ ~call.returned
    /\ call' = [call EXCEPT !.returned = TRUE,
                            !.value = Some(extractSpatialText(call.arg.textContent,
                                                              call.arg.pageNum))]
    /\ UNCHANGED <<currentProcessingId, pdfjsLoaded, now, runs, activeRuns, docPool>>

\* the items extractSpatialText has returned are handed to groupItemsIntoRows,
\* as extractTransactionsWithSpatial does with the spatial text of a page
GroupItemsIntoRowsCalled ==
    /\ call.fn = "extractSpatialText"
    /\ call.returned
    /\ call' = Call("groupItemsIntoRows", call.value.val.items)
    /\ UNCHANGED <<currentProcessingId, pdfjsLoaded, now, runs, activeRuns, docPool>>

\* groupItemsIntoRows(items) returns
GroupItemsIntoRowsReturns ==
    /\ call.fn = "groupItemsIntoRows"
    /\ ~call.returned
    /\ call' = [call EXCEPT !.returned = TRUE, !.value = Some(groupItemsIntoRows(call.arg))]
    /\ UNCHANGED <<currentProcessingId, pdfjsLoaded, now, runs, activeRuns, docPool>>

NextCall ==
    \/ ParseCurrencyAmountReturns
    \/ NormalizeDateReturns
    \/ DetectColumnStructureReturns
    \/ ParseRowWithSpatialReturns
    \/ ExtractSpatialTextReturns
    \/ GroupItemsIntoRowsCalled
    \/ GroupItemsIntoRowsReturns

SpecCall == InitCall /\ [][NextCall]_vars

----------------------------------------------------------------------------
(* Vocabulary of the properties *)

\* the sorted fragments of page k of the file of a run
ItemsOfPage(run, k) == SortItems(PageItems(run.file.pages[k]))

\* what the detector finds on page k taken by itself
OwnDetection(run, k) == detectColumnStructure(ItemsOfPage(run, k))

\* the rows of page k parsed with a given structure
ParsedWith(run, k, columnInfo) ==
    RowsToTransactions(groupItemsIntoRows(ItemsOfPage(run, k)), columnInfo, k, now)

\* the page loop has gone through page k without throwing
Processed(run, k) == k >= 1 /\ k < run.pageNum

\* the text content of page k was received (the page went through or threw)
Attempted(run, k) ==
    \/ Processed(run, k)
    \/ k >= 1 /\ k = run.pageNum /\ run.pc = "failed"
       /\ run.error.kind \in {"NoText", "NoStructure"}

\* the transactions of a run that came from page k
TransactionsOfPage(run, k) == SelectSeq(run.allTransactions, LAMBDA t : t.page = k)

\* neither page k nor an earlier page has a valid structure of its own
NoStructureAvailable(run, k) ==
    \A j \in 1..k : ~OwnDetection(run, j).hasValidStructure

PagesOf(run) == 1..Len(run.file.pages)

ExternalFailures ==
    {"LoadLibraryFailed", "FileReadFailed", "OpenDocumentFailed",
     "GetPageFailed", "GetTextContentFailed"}

----------------------------------------------------------------------------
(* C1 - a page without any column structure *)

\* C1 as stated: a page that has fragments but no valid column structure, its
\* own or carried, yields zero transactions and the run does not fail on it.
C1_PageWithoutStructureIsSkipped ==
    \A r \in Runs : \A k \in PagesOf(runs[r]) :
        (/\ Attempted(runs[r], k)
         /\ ItemsOfPage(runs[r], k) # <<>>
         /\ NoStructureAvailable(runs[r], k))
        => /\ TransactionsOfPage(runs[r], k) = <<>>
           /\ ~(runs[r].pc = "failed" /\ runs[r].error = Error("NoStructure", k))

\* C1 amended: a page that has fragments but no valid column structure, its
\* own or carried, makes the run fail there: the run ends with the error of
\* extractTransactionsWithSpatial, returns no result, has no transaction of
\* that page and has read no page after it.
C1_PageWithoutStructureFailsRun ==
    \A r \in Runs : \A k \in PagesOf(runs[r]) :
        (/\ Attempted(runs[r], k)
         /\ ItemsOfPage(runs[r], k) # <<>>
         /\ NoStructureAvailable(runs[r], k))
        => /\ runs[r].pc = "failed"
           /\ runs[r].error = Error("NoStructure", k)
           /\ ~runs[r].result.some
           /\ TransactionsOfPage(runs[r], k) = <<>>
           /\ runs[r].pagesRead = [i \in 1..k |-> i]

\* a run has failed on a page that has fragments but no column structure
C1_Witness ==
    \E r \in Runs :
        /\ runs[r].pc = "failed"
        /\ runs[r].error.kind = "NoStructure"
        /\ ItemsOfPage(runs[r], runs[r].error.page) # <<>>
        /\ Len(runs[r].file.pages) > runs[r].error.page

----------------------------------------------------------------------------
(* C2 - what makes a run fail *)

\* C2 as stated: a run that failed while it was processing its pages failed
\* because the external reading step threw.
C2_OnlyReadingFails ==
    \A r \in Runs :
        (runs[r].pc = "failed" /\ runs[r].error.page >= 1)
        => runs[r].error.kind \in ExternalFailures

\* C2 amended: a run fails exactly for one of these reasons: the file is not a
\* PDF, an awaited external step throws, a page has no fragments, a page has
\* no column structure of its own or carried, or the run is cancelled at a
\* page boundary.  Rows that do not parse are none of them: a run that has
\* gone through its pages has met none of these conditions, whatever its rows.
C2_FailureCauses ==
    \A r \in Runs :
        LET run == runs[r]
            k == run.error.page
        IN  /\ run.pc = "failed" =>
                \/ run.error.kind = "NotPdf" /\ run.file.type # PdfType
                \/ run.error.kind \in ExternalFailures
                \/ /\ run.error.kind = "NoText"
                   /\ ItemsOfPage(run, k) = <<>>
                \/ /\ run.error.kind = "NoStructure"
                   /\ ItemsOfPage(run, k) # <<>>
                   /\ NoStructureAvailable(run, k)
                \/ /\ run.error.kind = "Cancelled"
                   /\ run.processingId # currentProcessingId
                   /\ k <= run.maxPages
            /\ \A j \in PagesOf(run) : Processed(run, j) =>
                   /\ ItemsOfPage(run, j) # <<>>
                   /\ ~NoStructureAvailable(run, j)
            /\ run.pc = "done" =>
                   /\ run.error = NoError
                   /\ \A j \in 1..run.maxPages : Processed(run, j)

\* a run has completed although one of its rows did not parse, and another
\* run has failed on a page without fragments
C2_Witness ==
    \E r, q \in Runs :
        /\ runs[r].pc = "done"
        /\ \E j \in PagesOf(runs[r]) :
               Len(TransactionsOfPage(runs[r], j)) < Len(runs[r].file.pages[j].rows)
        /\ runs[q].pc = "failed"
        /\ runs[q].error.kind = "NoText"

----------------------------------------------------------------------------
(* C3 - which structure a page with a valid detection is parsed with *)

\* C3 as stated: a page whose own detection is valid is parsed with its own
\* structure, and that structure is the one carried to the next page.
C3_FreshStructurePreferred ==
    \A r \in Runs : \A k \in PagesOf(runs[r]) :
        (Processed(runs[r], k) /\ OwnDetection(runs[r], k).hasValidStructure)
        => /\ TransactionsOfPage(runs[r], k) = ParsedWith(runs[r], k, OwnDetection(runs[r], k))
           /\ (runs[r].pageNum = k + 1
               => runs[r].masterColumnInfo = Some(OwnDetection(runs[r], k)))

\* C3 amended: the first page of a run is parsed with the structure detected
\* on it, which becomes the carried structure; every later page is parsed with
\* that carried structure, which stays as it is, also when the later page's
\* own detection is valid.
C3_FirstStructureKept ==
    \A r \in Runs : \A k \in PagesOf(runs[r]) :
        Processed(runs[r], k)
        => /\ OwnDetection(runs[r], 1).hasValidStructure
           /\ TransactionsOfPage(runs[r], k) = ParsedWith(runs[r], k, OwnDetection(runs[r], 1))
           /\ runs[r].masterColumnInfo = Some(OwnDetection(runs[r], 1))

\* a run has gone through a second page whose own valid detection differs from
\* the first page's and would have given other transactions
C3_Witness ==
    \E r \in Runs :
        /\ Processed(runs[r], 2)
        /\ OwnDetection(runs[r], 2).hasValidStructure
        /\ OwnDetection(runs[r], 2) # OwnDetection(runs[r], 1)
        /\ ParsedWith(runs[r], 2, OwnDetection(runs[r], 2))
               # ParsedWith(runs[r], 2, OwnDetection(runs[r], 1))

----------------------------------------------------------------------------
(* C4 - a page without a valid detection after a page with one *)

\* the last page before k whose own detection is valid
LastValidPageBefore(run, k) ==
    CHOOSE j \in 1..(k - 1) :
        /\ OwnDetection(run, j).hasValidStructure
        /\ \A i \in (j + 1)..(k - 1) : ~OwnDetection(run, i).hasValidStructure

\* a row the structure gives a valid cash-in amount
HasCashIn(row, columnInfo) == Truthy(ColumnAmount(row, columnInfo.cashInColumn))

\* C4 as stated: a page with fragments but without a valid detection of its
\* own, after some page with one, is parsed with the structure of the most
\* recent page that had a valid detection.
C4_MostRecentStructureUsed ==
    \A r \in Runs : \A k \in PagesOf(runs[r]) :
        (/\ Attempted(runs[r], k)
         /\ ItemsOfPage(runs[r], k) # <<>>
         /\ ~OwnDetection(runs[r], k).hasValidStructure
         /\ \E j \in 1..(k - 1) : OwnDetection(runs[r], j).hasValidStructure)
        => /\ Processed(runs[r], k)
           /\ TransactionsOfPage(runs[r], k) =
                  ParsedWith(runs[r], k, OwnDetection(runs[r], LastValidPageBefore(runs[r], k)))

\* C4 amended: a later page that has fragments but no valid detection of its
\* own does not fail the run; it is parsed with the carried structure, which
\* is the structure detected on the first page of the run, and each of its
\* transactions is Income when its row has a valid amount in the cash-in window
\* of that structure and Expense otherwise.
C4_CarriedStructureUsed ==
    \A r \in Runs : \A k \in PagesOf(runs[r]) :
        (/\ Attempted(runs[r], k)
         /\ k > 1
         /\ ItemsOfPage(runs[r], k) # <<>>
         /\ ~OwnDetection(runs[r], k).hasValidStructure)
        => LET carried == OwnDetection(runs[r], 1)
               rows == groupItemsIntoRows(ItemsOfPage(runs[r], k))
               emitting == SelectSeq(rows, LAMBDA row :
                               /\ parseRowWithSpatial(row, carried, k, now).some
                               /\ isValidTransaction(parseRowWithSpatial(row, carried, k, now).val))
               found == TransactionsOfPage(runs[r], k)
           IN  /\ Processed(runs[r], k)
               /\ carried.hasValidStructure
               /\ found = ParsedWith(runs[r], k, carried)
               /\ Len(found) = Len(emitting)
               /\ \A i \in 1..Len(found) :
                      found[i].type = IF HasCashIn(emitting[i], carried) THEN "Income" ELSE "Expense"

\* a run has gone through a page without header after a header page and has
\* taken an Income and an Expense transaction from it
C4_Witness ==
    \E r \in Runs : \E k \in PagesOf(runs[r]) :
        /\ k > 1
        /\ Processed(runs[r], k)
        /\ ~OwnDetection(runs[r], k).hasValidStructure
        /\ \E i, j \in 1..Len(TransactionsOfPage(runs[r], k)) :
               /\ TransactionsOfPage(runs[r], k)[i].type = "Income"
               /\ TransactionsOfPage(runs[r], k)[j].type = "Expense"

----------------------------------------------------------------------------
(* C5 - duplicates in the result *)

\* C5: the result of a run holds no two transactions with the same key
\* (date, amount, first 20 characters of the description), the first
\* occurrence being the one kept.
C5_ResultHasNoDuplicates ==
    \A r \in Runs :
        runs[r].pc = "done"
        => /\ \A i, j \in 1..Len(runs[r].result.val.transactions) :
                  DedupKey(runs[r].result.val.transactions[i])
                      = DedupKey(runs[r].result.val.transactions[j]) => i = j
           /\ runs[r].result.val.transactions = removeDuplicateTransactions(runs[r].allTransactions)

----------------------------------------------------------------------------
(* C6 - a run that a newer call has superseded *)

\* a newer processDocument call has started since run started
Superseded(run, currentId) == run.pc # "idle" /\ run.processingId # currentId

\* C6 as stated: a run stopped by the cancellation check after it had gone
\* through at least one page has returned the transactions accumulated from
\* these pages to its caller.
C6_CancelledRunReturnsAccumulated ==
    \A r \in Runs :
        (runs[r].error.kind = "Cancelled" /\ runs[r].error.page > 1)
        => /\ runs[r].result.some
           /\ runs[r].result.val.transactions = runs[r].allTransactions

\* C6 amended: a superseded run reads no further page; when it comes to the
\* head of the page loop with a page left it stops there with the error
\* 'Processing cancelled', and it returns no result: the transactions it has
\* accumulated are not handed to its caller.
C6_CancelledRunStopsWithError ==
    [][\A r \in Runs :
          Superseded(runs[r], currentProcessingId)
          => /\ runs'[r].pagesRead = runs[r].pagesRead
             /\ (runs'[r].pageNum # runs[r].pageNum /\ runs'[r].pageNum <= runs'[r].maxPages)
                => /\ runs'[r].pc = "failed"
                   /\ runs'[r].error = Error("Cancelled", runs'[r].pageNum)
             /\ runs'[r].error.kind = "Cancelled"
                => /\ runs'[r].pc = "failed"
                   /\ ~runs'[r].result.some]_vars

\* a run has been stopped by the cancellation check with transactions
\* accumulated from the pages it had gone through
C6_Witness ==
    \E r \in Runs :
        /\ runs[r].pc = "failed"
        /\ runs[r].error.kind = "Cancelled"
        /\ runs[r].error.page > 1
        /\ runs[r].allTransactions # <<>>

----------------------------------------------------------------------------
(* C7 - overlapping runs *)

RECURSIVE AloneAfter(_, _, _)
\* the carried structure and the accumulator of a run of processPDF on file,
\* by itself, after its page loop has gone through k pages
AloneAfter(file, k, n) ==
    IF k = 0 THEN [masterColumnInfo |-> Null, allTransactions |-> <<>>]
    ELSE LET before == AloneAfter(file, k - 1, n)
             result == extractTransactionsWithSpatial(
                           extractSpatialText(PageItems(file.pages[k]), k), k,
                           before.masterColumnInfo, n)
         IN  [masterColumnInfo |-> NextMaster(before.masterColumnInfo, result),
              allTransactions |-> before.allTransactions \o result.transactions]

\* C7: whatever the other runs do, the carried structure and the accumulator
\* of a run are those of the same run by itself on the pages it has gone
\* through, a run fails for want of a column structure only where it would by
\* itself, and the result of a run that completes is the result of the run by
\* itself.
C7_RunsShareNoExtractionState ==
    \A r \in Runs :
        runs[r].pageNum >= 1
        => LET alone == AloneAfter(runs[r].file, runs[r].pageNum - 1, now)
           IN  /\ runs[r].masterColumnInfo = alone.masterColumnInfo
               /\ runs[r].allTransactions = alone.allTransactions
               /\ runs[r].error.kind = "NoStructure"
                  => ~ChosenColumnInfo(ItemsOfPage(runs[r], runs[r].pageNum),
                                       alone.masterColumnInfo).hasValidStructure
               /\ runs[r].pc = "done"
                  => runs[r].result =
                         Some([transactions |-> alone.allTransactions,
                               totalTransactions |-> Len(alone.allTransactions),
                               pagesProcessed |-> runs[r].pageNum - 1])

\* two runs are in flight on different files, each past its first page, with
\* different carried structures, the older one on its last page
C7_Witness ==
    \E r, q \in Runs :
        /\ r < q
        /\ runs[r].pc = "getText"
        /\ runs[q].pc = "getText"
        /\ runs[r].pageNum >= 2
        /\ runs[q].pageNum >= 2
        /\ runs[r].pageNum = runs[r].maxPages
        /\ runs[r].file # runs[q].file
        /\ runs[r].masterColumnInfo # runs[q].masterColumnInfo
        /\ runs[r].allTransactions # <<>>
        /\ runs[q].allTransactions # <<>>

----------------------------------------------------------------------------
(* C8 - the pages a run reads *)

\* C8: a run reads the pages 1, 2, 3, ... in this order, each once, never
\* more than 10 of them nor more than the document has; a run that succeeds
\* reports pagesProcessed = min(number of pages, 10), has read exactly these
\* pages, and its transactions are those of these pages, in page order.
C8_PagesReadInOrderUpToLimit ==
    \A r \in Runs :
        LET run == runs[r]
            limit == IF Len(run.file.pages) < 10 THEN Len(run.file.pages) ELSE 10
        IN  /\ run.pagesRead = [i \in 1..Len(run.pagesRead) |-> i]
            /\ Len(run.pagesRead) <= limit
            /\ run.pc = "done"
               => /\ run.result.val.pagesProcessed = limit
                  /\ Len(run.pagesRead) = limit
                  /\ \A i \in 1..Len(run.result.val.transactions) :
                         /\ run.result.val.transactions[i].page \in 1..limit
                         /\ i > 1 => run.result.val.transactions[i - 1].page
                                         <= run.result.val.transactions[i].page
                  /\ \A k \in 1..limit :
                         SelectSeq(run.result.val.transactions, LAMBDA t : t.page = k)
                             = ParsedWith(run, k, OwnDetection(run, 1))

\* a run on a document of more than 10 pages has succeeded with transactions
\* from page 10
C8_Witness ==
    \E r \in Runs :
        /\ runs[r].pc = "done"
        /\ Len(runs[r].file.pages) > 10
        /\ runs[r].result.val.pagesProcessed = 10
        /\ \E i \in 1..Len(runs[r].result.val.transactions) :
               runs[r].result.val.transactions[i].page = 10

----------------------------------------------------------------------------
(* C9 - what an emitted transaction looks like *)

\* a string of the form DD/MM/YYYY
IsCanonicalDate(d) ==
    /\ Len(d) = 10
    /\ d[3] = "/"
    /\ d[6] = "/"
    /\ \A i \in {1, 2, 4, 5, 7, 8, 9, 10} : d[i] \in Digits

\* C9: every transaction a run has accumulated or returned has a non-empty
\* date of the form DD/MM/YYYY, a description of 3 to 100 characters made of
\* the characters cleaning keeps, without white space at its start, an amount
\* above 0 and at most 50,000, and the type Income or Expense.
C9_EmittedTransactionsAreValid ==
    \A r \in Runs :
        \A i \in 1..Len(runs[r].allTransactions) :
            LET t == runs[r].allTransactions[i]
            IN  /\ t.date # <<>>
                /\ IsCanonicalDate(t.date)
                /\ Len(t.description) >= 3
                /\ Len(t.description) <= 100
                /\ \A c \in 1..Len(t.description) : t.description[c] \in DescriptionChars
                /\ t.description[1] \notin WhiteSpace
                /\ t.amount > 0
                /\ t.amount <= 50000 * 100
                /\ t.type \in {"Income", "Expense"}
                /\ runs[r].pc = "done" => runs[r].result.val.transactions[i] = t

\* a run has returned a transaction whose description was cut at 100
\* characters and whose amount was written with a sign and a thousands comma
C9_Witness ==
    \E r \in Runs :
        /\ runs[r].pc = "done"
        /\ \E i \in 1..Len(runs[r].result.val.transactions) :
               /\ Len(runs[r].result.val.transactions[i].description) = 100
               /\ runs[r].result.val.transactions[i].amount = 123456

----------------------------------------------------------------------------
(* C10 - one data row under a header row *)

\* the value in pence of each of AmountTexts, 0 where the text is no valid
\* amount
AmountValues == <<161000, 123456, 32050, 0, 0, 0>>

\* the file of the run is one page with the header row and one data row whose
\* date matches the date pattern and normalizes, whose description keeps three
\* characters or more and whose amount is a valid amount
IsPlainRowFile(run) ==
    /\ run.file \in SingleRowDocs
    /\ LET row == run.file.pages[1].rows[1]
       IN  /\ LooseDatePattern(DateTexts[row.date])
           /\ normalizeDate(DateTexts[row.date], now).some
           /\ Len(cleanDescription(DescTexts[row.desc])) >= 3
           /\ AmountValues[row.amt] > 0

\* the run has taken exactly one transaction from its page, with the type of
\* the column the amount was placed in, that amount, confidence 0.9 and page 1
OneTransactionOfItsSide(run) ==
    LET row == run.file.pages[1].rows[1]
    IN  /\ Processed(run, 1)
        /\ Len(run.allTransactions) = 1
        /\ run.allTransactions[1].type = (IF row.side = "in" THEN "Income" ELSE "Expense")
        /\ run.allTransactions[1].amount = AmountValues[row.amt]
        /\ run.allTransactions[1].confidence = 9
        /\ run.allTransactions[1].page = 1

\* the columns of the page lie apart as the windows of parseRowWithSpatial
\* need: all at positive x, the description column more than 50 right of the
\* date column, more than 20 left of the nearer amount column and outside the
\* windows of both amount columns, the two amount columns 50 or more apart
ColumnsWellApart(page) ==
    LET l == Layouts[page.layout]
    IN  /\ l.date > 0
        /\ l.desc > l.date + 50
        /\ l.desc < Min(l.cashIn, l.cashOut) - 20
        /\ Abs(l.desc - l.cashIn) >= 50
        /\ Abs(l.desc - l.cashOut) >= 50
        /\ Abs(l.cashOut - l.cashIn) >= 50

RowHasNoKeyword(page) ==
    /\ MatchedKeyword(DateTexts[page.rows[1].date]) = 0
    /\ MatchedKeyword(DescTexts[page.rows[1].desc]) = 0
    /\ MatchedKeyword(AmountTexts[page.rows[1].amt]) = 0

----------------------------------------------------------------------------
(* C11 - a page without any date-like fragment *)

\* no fragment of page k matches the loose date pattern
NoDateLikeFragment(run, k) ==
    \A i \in 1..Len(ItemsOfPage(run, k)) : ~LooseDatePattern(ItemsOfPage(run, k)[i].text)

\* C11 as stated: a page none of whose fragments matches the loose date
\* pattern contributes no transaction, and the run does not fail on it.
C11_PageWithoutDatesRaisesNoError ==
    \A r \in Runs : \A k \in PagesOf(runs[r]) :
        (Attempted(runs[r], k) /\ NoDateLikeFragment(runs[r], k))
        => /\ TransactionsOfPage(runs[r], k) = <<>>
           /\ Processed(runs[r], k)

\* C11 amended: a page none of whose fragments matches the loose date pattern
\* contributes no transaction.  The run goes past it without an error when the
\* page has a fragment and a valid column structure is at hand (detected on
\* page 1, carried afterwards); it fails on it with the error of the empty
\* page when the page has no fragment, and with the error of the missing
\* structure when the page has fragments but no structure is at hand.
C11_PageWithoutDatesGivesNothing ==
    \A r \in Runs : \A k \in PagesOf(runs[r]) :
        (Attempted(runs[r], k) /\ NoDateLikeFragment(runs[r], k))
        => /\ TransactionsOfPage(runs[r], k) = <<>>
           /\ (ItemsOfPage(runs[r], k) # <<>> /\ ~NoStructureAvailable(runs[r], k))
                  => Processed(runs[r], k)
           /\ ItemsOfPage(runs[r], k) = <<>>
                  => runs[r].pc = "failed" /\ runs[r].error = Error("NoText", k)
           /\ (ItemsOfPage(runs[r], k) # <<>> /\ NoStructureAvailable(runs[r], k))
                  => runs[r].pc = "failed" /\ runs[r].error = Error("NoStructure", k)

\* a run has completed a document with a page that has a description and an
\* amount but no fragment matching the date pattern
C11_Witness ==
    \E r \in Runs : \E k \in PagesOf(runs[r]) :
        /\ runs[r].pc = "done"
        /\ NoDateLikeFragment(runs[r], k)
        /\ \E i \in 1..Len(ItemsOfPage(runs[r], k)) :
               HasDigitDot2Digits(ItemsOfPage(runs[r], k)[i].text)
        /\ TransactionsOfPage(runs[r], k) = <<>>

----------------------------------------------------------------------------
(* C12 - the two outcomes of a run *)

\* C12: a run has a result exactly when it has completed, and an error
\* exactly when it has failed.  The result of a completed run covers the
\* pages 1..min(number of pages, 10), each read once and in order, and holds
\* the transactions of all of them; a failed run, also one that failed while
\* reading page k after pages that gave transactions, has no result.
C12_ResultOrErrorNeverBoth ==
    \A r \in Runs :
        /\ runs[r].result.some <=> runs[r].pc = "done"
        /\ runs[r].error # NoError <=> runs[r].pc = "failed"
        /\ runs[r].pc = "done" =>
               /\ runs[r].result.val.pagesProcessed
                      = (IF Len(runs[r].file.pages) < 10 THEN Len(runs[r].file.pages) ELSE 10)
               /\ runs[r].pagesRead = [i \in 1..runs[r].result.val.pagesProcessed |-> i]
               /\ \A k \in 1..runs[r].result.val.pagesProcessed : Processed(runs[r], k)
               /\ runs[r].result.val.transactions = runs[r].allTransactions
               /\ runs[r].result.val.totalTransactions = Len(runs[r].allTransactions)
        /\ (runs[r].pc = "failed"
            /\ runs[r].error.kind \in {"GetPageFailed", "GetTextContentFailed"})
               => /\ runs[r].error.page \in 1..Len(runs[r].file.pages)
                  /\ runs[r].pagesRead = [i \in 1..runs[r].error.page |-> i]
                  /\ ~runs[r].result.some

\* a run has failed while reading a page after pages that gave transactions
C12_Witness ==
    \E r \in Runs :
        /\ runs[r].pc = "failed"
        /\ runs[r].error.kind \in {"GetPageFailed", "GetTextContentFailed"}
        /\ runs[r].error.page > 1
        /\ runs[r].allTransactions # <<>>
        /\ ~runs[r].result.some

----------------------------------------------------------------------------
(* C13 - what a valid column structure holds *)

\* a structure with the date column and one of the amount columns set
HasDateAndAmountColumn(columnInfo) ==
    /\ columnInfo.dateColumn.some
    /\ columnInfo.cashInColumn.some \/ columnInfo.cashOutColumn.some

\* C13: the detector calls the structure of a page valid exactly when the date
\* column and at least one of the cash-in and cash-out columns are set, and
\* the structure a run carries is at every moment either absent or a valid
\* structure with these columns set.
C13_ValidStructureHasItsColumns ==
    \A r \in Runs :
        /\ \A k \in PagesOf(runs[r]) :
               OwnDetection(runs[r], k).hasValidStructure
                   <=> HasDateAndAmountColumn(OwnDetection(runs[r], k))
        /\ runs[r].masterColumnInfo.some
               => /\ runs[r].masterColumnInfo.val.hasValidStructure
                  /\ HasDateAndAmountColumn(runs[r].masterColumnInfo.val)

\* a run carries a structure over a page whose own structure has amount
\* columns but no date column
C13_Witness ==
    \E r \in Runs : \E k \in PagesOf(runs[r]) :
        /\ runs[r].masterColumnInfo.some
        /\ Processed(runs[r], k)
        /\ ~OwnDetection(runs[r], k).hasValidStructure
        /\ OwnDetection(runs[r], k).cashOutColumn.some

----------------------------------------------------------------------------
(* C14 - an amount written with a comma and no dot *)

\* pence within the range parseCurrencyAmount accepts, 0.01 to 50000
InAmountRange(p) == p >= 1 /\ p <= 5000000

\* C14: for a text of digits and one comma, parseCurrencyAmount returns the
\* amount read with the comma as the decimal point when exactly two digits
\* follow the comma (one to six digits before it, the value in range), and
\* rejects the text otherwise.
C14_SingleCommaIsDecimalPoint ==
    (call.fn = "parseCurrencyAmount" /\ call.returned)
    => \A a \in CommaIntParts : \A b \in CommaFracParts :
           call.arg = a \o <<",">> \o b
           => call.value = IF /\ Len(b) = 2
                              /\ Len(a) >= 1
                              /\ Len(a) <= 6
                              /\ InAmountRange(100 * ParseNat(a) + ParseNat(b))
                           THEN Some(100 * ParseNat(a) + ParseNat(b))
                           ELSE Null

----------------------------------------------------------------------------
(* C15 - an amount written with commas and dots *)

\* the text s read with the symbol dec as the decimal point and the symbol
\* sep as thousands separator: one to six digits, the decimal point, two
\* digits, the value in range; no value otherwise
ReadWithDecimal(s, dec, sep) ==
    LET t == Filter(s, {sep})
        n == Len(t)
    IN  IF /\ n >= 4
           /\ n <= 9
           /\ t[n - 2] = dec
           /\ \A i \in (1..n) \ {n - 2} : t[i] \in Digits
           /\ InAmountRange(100 * ParseNat(SubSeq(t, 1, n - 3)) + ParseNat(SubSeq(t, n - 1, n)))
        THEN Some(100 * ParseNat(SubSeq(t, 1, n - 3)) + ParseNat(SubSeq(t, n - 1, n)))
        ELSE Null

\* the dot of s stands to the right of every comma
DotIsRightmost(s) == LastIndexOf(s, ".") > LastIndexOf(s, ",")

\* C15 as stated: for a text with commas and dots, parseCurrencyAmount reads
\* the right-most of the two symbols as the decimal point and drops the other.
C15_RightmostSymbolIsDecimal ==
    (call.fn = "parseCurrencyAmount" /\ call.returned /\ call.arg \in CommaAndDotInputs)
    => call.value = IF DotIsRightmost(call.arg)
                    THEN ReadWithDecimal(call.arg, ".", ",")
                    ELSE ReadWithDecimal(call.arg, ",", ".")

\* C15 amended: for a text with commas and dots, parseCurrencyAmount drops
\* the commas and reads the dot as the decimal point when a dot is the
\* right-most of the symbols, and rejects the text when a comma is.
C15_DotDecimalOrRejected ==
    (call.fn = "parseCurrencyAmount" /\ call.returned /\ call.arg \in CommaAndDotInputs)
    => call.value = IF DotIsRightmost(call.arg)
                    THEN ReadWithDecimal(call.arg, ".", ",")
                    ELSE Null

\* 1,234.56 has been read as 1234.56
C15_Witness ==
    /\ call.fn = "parseCurrencyAmount"
    /\ call.returned
    /\ call.arg = <<"1",",","2","3","4",".","5","6">>
    /\ call.value = Some(123456)

----------------------------------------------------------------------------
(* C16 - the range of the amounts *)

\* the styles that mark an amount as negative
NegativeStyles == {"parentheses", "minus"}

\* C16 as stated: parseCurrencyAmount rejects every amount outside the
\* interval from 0.01 (excluded) to 50000 (included), and the magnitude of
\* every value it returns lies in that interval.
C16_RangeOpenAtOnePenny ==
    (call.fn = "parseCurrencyAmount" /\ call.returned)
    => /\ \A p \in PenceValues : \A st \in AmountStyles :
              (call.arg = StyledAmount(p, st) /\ ~(p > 1 /\ p <= 5000000))
              => call.value = Null
       /\ call.value.some => (Abs(call.value.val) > 1 /\ Abs(call.value.val) <= 5000000)

\* C16 amended: parseCurrencyAmount rejects every amount below 0.01 or above
\* 50000 and returns every amount from 0.01 to 50000, both included, that is
\* written with two decimals: the value returned is the amount written, made
\* negative when the text marks it as negative, and the magnitude of every
\* value returned lies between 0.01 and 50000.
C16_RangeClosedAtOnePenny ==
    (call.fn = "parseCurrencyAmount" /\ call.returned)
    => /\ \A p \in PenceValues : \A st \in AmountStyles :
              call.arg = StyledAmount(p, st)
              => call.value = IF p >= 1 /\ p <= 5000000
                              THEN Some(IF st \in NegativeStyles THEN 0 - p ELSE p)
                              ELSE Null
       /\ call.value.some => (Abs(call.value.val) >= 1 /\ Abs(call.value.val) <= 5000000)

\* the amount 0.01 has been returned
C16_Witness ==
    /\ call.fn = "parseCurrencyAmount"
    /\ call.returned
    /\ call.arg = AmountText(1)
    /\ call.value = Some(1)

----------------------------------------------------------------------------
(* C17 - canonical dates come back unchanged *)

MonthDays == <<31, 28, 31, 30, 31, 30, 31, 31, 30, 31, 30, 31>>

LeapYear(y) == y % 400 = 0 \/ (y % 4 = 0 /\ y % 100 # 0)

\* day d of month m of year y is a day of the calendar
IsRealDate(d, m, y) ==
    /\ m \in 1..12
    /\ d >= 1
    /\ d <= MonthDays[m] + (IF m = 2 /\ LeapYear(y) THEN 1 ELSE 0)

\* days in calendar order
DayNumber(d, m, y) == 10000 * y + 100 * m + d

\* the day two years after the processing date n, as a day number; two years
\* after a 29 February is the day after 28 February, 1 March
LimitDayNumber(n) ==
    IF n.m = 2 /\ n.d = 29 /\ ~LeapYear(n.y + 2)
    THEN DayNumber(1, 3, n.y + 2)
    ELSE DayNumber(n.d, n.m, n.y + 2)

\* C17: for a text DD/MM/YYYY that names a day of the calendar in a year from
\* 1900 to 2100, not later than two years after the processing date,
\* normalizeDate returns the same text.
C17_CanonicalDateRoundTrip ==
    (call.fn = "normalizeDate" /\ call.returned)
    => \A d \in DateDays : \A m \in DateMonths : \A y \in DateYears :
           (/\ call.arg = CanonicalDateText(d, m, y)
            /\ IsRealDate(d, m, y)
            /\ y >= 1900
            /\ y <= 2100
            /\ DayNumber(d, m, y) <= LimitDayNumber(now))
           => call.value = Some(call.arg)

\* 29/02/2024 has come back unchanged
C17_Witness ==
    /\ call.fn = "normalizeDate"
    /\ call.returned
    /\ call.arg = <<"2","9","/","0","2","/","2","0","2","4">>
    /\ call.value = Some(call.arg)

----------------------------------------------------------------------------
(* C18 - dates too far in the future *)

\* the texts the day d/m/y is written as
DateTextsOf(d, m, y) ==
    {CanonicalDateText(d, m, y)}
    \cup (IF y >= 2000 /\ y <= 2050 THEN {ShortDateText(d, m, y)} ELSE {})

\* C18: normalizeDate returns no value for a date later than the day two
\* years after the processing date, and returns the date, as DD/MM/YYYY, for
\* every day of the calendar from 1900 on that is not later than that day.
C18_FutureDatesRejected ==
    (call.fn = "normalizeDate" /\ call.returned)
    => \A d \in DateDays : \A m \in DateMonths : \A y \in DateYears :
           call.arg \in DateTextsOf(d, m, y)
           => /\ DayNumber(d, m, y) > LimitDayNumber(now) => call.value = Null
              /\ (/\ IsRealDate(d, m, y)
                  /\ y >= 1900
                  /\ DayNumber(d, m, y) <= LimitDayNumber(now))
                 => call.value = Some(CanonicalDateText(d, m, y))

\* the day after the limit has been rejected
C18_Witness ==
    /\ call.fn = "normalizeDate"
    /\ call.returned
    /\ now = [y |-> 2025, m |-> 6, d |-> 1]
    /\ call.arg = <<"0","2","/","0","6","/","2","0","2","7">>
    /\ call.value = Null

----------------------------------------------------------------------------
(* C19 - the columns of a page with the four headers *)

\* C19: on a page that holds the headers Date, Description, Cash In and Cash
\* Out at four distinct positions, whatever the positions and the other
\* fragments, the detector reports a valid structure whose four columns are
\* the positions of the four headers.
C19_ColumnsAreHeaderPositions ==
    (call.fn = "detectColumnStructure" /\ call.returned)
    => \A l \in HeaderLayouts : \A o \in OtherFragments :
           call.arg = SortItems(HeaderRow(l) \o o)
           => /\ call.value.val.hasValidStructure
              /\ call.value.val.dateColumn = Some(l.date)
              /\ call.value.val.descColumn = Some(l.desc)
              /\ call.value.val.cashInColumn = Some(l.cashIn)
              /\ call.value.val.cashOutColumn = Some(l.cashOut)

----------------------------------------------------------------------------
(* C20 - the amount columns of a page without their headers *)

\* the centre of the 30-unit bucket of x
BucketOf(x) == 30 * ((x + 15) \div 30)

\* the greatest and the second greatest element of a set of numbers
Greatest(B) == CHOOSE b \in B : \A c \in B : c <= b

SecondGreatest(B) == Greatest(B \ {Greatest(B)})

\* C20: on a page without cash-in and cash-out headers the detector takes the
\* amount columns from the buckets of the strict currency fragments: no
\* bucket, no column; one bucket, the cash-out column; two buckets or more,
\* the right-most as the cash-out and the second from the right as the
\* cash-in column.
C20_AmountColumnsFromBuckets ==
    (call.fn = "detectColumnStructure" /\ call.returned)
    => \A S \in {T \in SUBSET AmountXs : Cardinality(T) <= MaxAmountFragments} :
       \A dated \in BOOLEAN : \A numbered \in BOOLEAN :
           call.arg = SortItems(HeaderlessPage(S, dated, numbered))
           => LET B == {BucketOf(x) : x \in S}
              IN  /\ call.value.val.cashOutColumn =
                         IF B = {} THEN Null ELSE Some(Greatest(B))
                  /\ call.value.val.cashInColumn =
                         IF Cardinality(B) >= 2 THEN Some(SecondGreatest(B)) ELSE Null

----------------------------------------------------------------------------
(* C21 - a row with an amount in both amount windows *)

\* the value in pence the text of an amount fragment of a row stands for
ValueWritten(text) == (CHOOSE a \in RowAmountTable : a.text = text).value

\* the index of the first fragment of the row that holds an amount within 50
\* units of the column, 0 when there is none or the column is not set
FirstInWindow(rowItems, column) ==
    IF column.some /\ \E i \in 1..Len(rowItems) :
                         rowItems[i].text \in RowAmountTexts /\ Abs(rowItems[i].x - column.val) < 50
    THEN CHOOSE i \in 1..Len(rowItems) :
             /\ rowItems[i].text \in RowAmountTexts
             /\ Abs(rowItems[i].x - column.val) < 50
             /\ \A j \in 1..(i - 1) :
                    ~(rowItems[j].text \in RowAmountTexts /\ Abs(rowItems[j].x - column.val) < 50)
    ELSE 0

\* the window of the column yields a valid amount
YieldsAmount(rowItems, column) ==
    /\ FirstInWindow(rowItems, column) # 0
    /\ ValueWritten(rowItems[FirstInWindow(rowItems, column)].text) # 0

\* the row has a fragment with this text
HasText(rowItems, text) == \E i \in 1..Len(rowItems) : rowItems[i].text = text

\* C21: a row whose cash-in window and cash-out window both yield a valid
\* amount is not rejected for that: with a date and a description it gives a
\* transaction, and whenever it gives one, this is of type Income, its amount
\* is the magnitude of the cash-in value, and it carries the page number.
C21_BothAmountsGiveIncome ==
    (call.fn = "parseRowWithSpatial" /\ call.returned)
    => LET row == call.arg.rowItems
           info == call.arg.columnInfo
       IN  (YieldsAmount(row, info.cashInColumn) /\ YieldsAmount(row, info.cashOutColumn))
           => /\ (HasText(row, DateTexts[1]) /\ HasText(row, DescTexts[1]))
                     => call.value.some
              /\ call.value.some
                     => /\ call.value.val.type = "Income"
                        /\ call.value.val.amount
                               = Abs(ValueWritten(row[FirstInWindow(row, info.cashInColumn)].text))
                        /\ call.value.val.page = call.arg.pageNumber

\* a row with (1610.00) in the cash-in column and 12.50 in the cash-out column
\* has given an Income transaction of 1610.00
C21_Witness ==
    /\ call.fn = "parseRowWithSpatial"
    /\ call.returned
    /\ \E i, j \in 1..Len(call.arg.rowItems) :
           /\ call.arg.rowItems[i].x = 400
           /\ call.arg.rowItems[i].text = StyledAmount(161000, "parentheses")
           /\ call.arg.rowItems[j].x = 480
           /\ call.arg.rowItems[j].text = StyledAmount(1250, "plain")
    /\ call.arg.columnInfo.cashOutColumn = Some(480)
    /\ call.value.some
    /\ call.value.val.type = "Income"
    /\ call.value.val.amount = 161000

----------------------------------------------------------------------------
(* C22 - what normalizeDate returns *)

\* a character of a date text read as the code reads it: the letters a scan
\* puts in the place of digits, every separator as a slash
ReadDateChar(ch) ==
    IF ch \in {"O", "o"} THEN "0"
    ELSE IF ch \in {"I", "l", "|"} THEN "1"
    ELSE IF ch = "S" THEN "5"
    ELSE IF ch = "Z" THEN "2"
    ELSE IF ch = "G" THEN "6"
    ELSE IF ch \in {"/", "-", "."} THEN "/"
    ELSE ch

\* the positions of the separators of a text, with 0 and the position after
\* the end of the text as the outer borders
Borders(text) ==
    {0, Len(text) + 1} \cup {i \in 1..Len(text) : ReadDateChar(text[i]) = "/"}

\* the digits of the text between the borders a and b
DigitsBetween(text, a, b) ==
    SelectSeq([i \in 1..(b - a - 1) |-> ReadDateChar(text[a + i])], LAMBDA ch : ch \in Digits)

\* the k-th numeric part of a text: the digits between the k-th border and
\* the next one
PartNumber(text, k) ==
    LET B == Borders(text)
        lo == CHOOSE a \in B : Cardinality({m \in B : m < a}) = k - 1
        hi == CHOOSE b \in B : Cardinality({m \in B : m < b}) = k
    IN  DigitsBetween(text, lo, hi)

\* a year as written, with the century of a year below 100
ExpandedYear(year) ==
    IF year >= 100 THEN year ELSE IF year > 50 THEN 1900 + year ELSE 2000 + year

\* day and month change places when the second number can only be a day
SwappedDay(day, month) == IF month > 12 /\ day <= 12 THEN month ELSE day

SwappedMonth(day, month) == IF month > 12 /\ day <= 12 THEN day ELSE month

\* C22: normalizeDate rejects a text that has not exactly three numeric
\* parts (the digits before, between and after two separators, none of them
\* empty).  Every value it returns is the text DD/MM/YYYY of the day, month
\* and year the three parts give after the two-digit-year expansion and the
\* day/month swap; this is a day of the calendar (30/02 and 31/04 are not)
\* with day in 1..31, month in 1..12 and year in 1900..2100.
C22_ReturnedDateIsRealAndFromInput ==
    (call.fn = "normalizeDate" /\ call.returned)
    => /\ (Cardinality(Borders(call.arg)) # 4
           \/ \E k \in 1..3 : PartNumber(call.arg, k) = <<>>)
              => call.value = Null
       /\ call.value.some
              => LET day == ParseNat(PartNumber(call.arg, 1))
                     month == ParseNat(PartNumber(call.arg, 2))
                     year == ExpandedYear(ParseNat(PartNumber(call.arg, 3)))
                     d == SwappedDay(day, month)
                     m == SwappedMonth(day, month)
                 IN  /\ IsCanonicalDate(call.value.val)
                     /\ call.value.val = CanonicalDateText(d, m, year)
                     /\ d \in 1..31
                     /\ m \in 1..12
                     /\ year \in 1900..2100
                     /\ IsRealDate(d, m, year)

\* 04.13.24 has come back as 13/04/2024: the day and the month have changed
\* places and the year has got its century
C22_Witness ==
    /\ call.fn = "normalizeDate"
    /\ call.returned
    /\ call.arg = <<"0","4",".","1","3",".","2","4">>
    /\ call.value = Some(<<"1","3","/","0","4","/","2","0","2","4">>)

----------------------------------------------------------------------------
(* C23 - the rows of a page *)

RECURSIVE Concatenation(_)
\* the rows written one after the other
Concatenation(rows) ==
    IF rows = <<>> THEN <<>> ELSE Head(rows) \o Concatenation(Tail(rows))

\* C23: groupItemsIntoRows cuts the sequence of fragments it is given into
\* consecutive non-empty rows: the rows written one after the other are the
\* sequence given; every fragment of a row is within 10 units of the y of the
\* first fragment of its row; and the first fragment of every row but the
\* first is more than 10 units from the y of the first fragment of the row
\* before, so that a row starts exactly where a fragment is more than 10 from
\* the first fragment of the current row.
C23_RowsCutTheSequence ==
    (call.fn = "groupItemsIntoRows" /\ call.returned)
    => LET rows == call.value.val
       IN  /\ \A k \in 1..Len(rows) : rows[k] # <<>>
           /\ Concatenation(rows) = call.arg
           /\ \A k \in 1..Len(rows) : \A i \in 1..Len(rows[k]) :
                  Abs(rows[k][i].y - rows[k][1].y) <= 10
           /\ \A k \in 2..Len(rows) : Abs(rows[k][1].y - rows[k - 1][1].y) > 10

\* four fragments, three of them within 10 units of the first and at three
\* different y, the fourth far below, have given a row of three and a row of
\* one
C23_Witness ==
    /\ call.fn = "groupItemsIntoRows"
    /\ call.returned
    /\ Len(call.arg) = 4
    /\ Cardinality({call.arg[i].y : i \in 1..3}) = 3
    /\ call.arg[4].y = 250
    /\ Len(call.value.val) = 2
    /\ Len(call.value.val[1]) = 3
    /\ Len(call.value.val[2]) = 1

----------------------------------------------------------------------------
(* C24 - the order of the rows and of the fragments of a row *)

\* C24: the rows groupItemsIntoRows makes of the fragments of a page, sorted
\* by extractSpatialText, list their fragments from left to right (x never
\* decreases along a row) and follow one another down the page (every
\* fragment of a row lies above every fragment of the next row).
C24_RowsLeftToRightTopDown ==
    (call.fn = "groupItemsIntoRows" /\ call.returned)
    => LET rows == call.value.val
       IN  /\ \A k \in 1..Len(rows) : \A i \in 2..Len(rows[k]) :
                  rows[k][i - 1].x <= rows[k][i].x
           /\ \A k \in 2..Len(rows) :
                  \A i \in 1..Len(rows[k - 1]) : \A j \in 1..Len(rows[k]) :
                      rows[k - 1][i].y > rows[k][j].y

----------------------------------------------------------------------------
(* C25 - amounts of one column with a little jitter *)

\* the least element of a set of numbers
Least(B) == CHOOSE b \in B : \A c \in B : b <= c

\* C25: on a page without cash-in and cash-out headers whose strict currency
\* fragments all lie less than 30 units apart in x, the fragments count as
\* one column: the detector does not report two amount columns, and the
\* column it reports is less than 30 units from every fragment.
C25_NearPositionsAreOneColumn ==
    (call.fn = "detectColumnStructure" /\ call.returned)
    => \A S \in {T \in SUBSET AmountXs : Cardinality(T) <= MaxAmountFragments} :
       \A dated \in BOOLEAN : \A numbered \in BOOLEAN :
           (/\ call.arg = SortItems(HeaderlessPage(S, dated, numbered))
            /\ S # {}
            /\ Greatest(S) - Least(S) < 30)
           => /\ ~(call.value.val.cashInColumn.some /\ call.value.val.cashOutColumn.some)
              /\ \A x \in S :
                     /\ call.value.val.cashInColumn.some
                            => Abs(call.value.val.cashInColumn.val - x) < 30
                     /\ call.value.val.cashOutColumn.some
                            => Abs(call.value.val.cashOutColumn.val - x) < 30

----------------------------------------------------------------------------
(* C26 - a page with one of the two amount headers *)

\* C26: on a page that has one of the headers Cash In and Cash Out, the
\* column of that header is reported at the position of the header, whatever
\* the fallback inference finds for the column whose header is missing.
C26_HeaderPositionKept ==
    (call.fn = "detectColumnStructure" /\ call.returned)
    => \A which \in {"in", "out"} :
       \A S \in {T \in SUBSET OneHeaderAmountXs : Cardinality(T) <= MaxAmountFragments} :
           call.arg = SortItems(OneHeaderPage(which, S))
           => /\ which = "in" => call.value.val.cashInColumn = Some(OneHeaderX["in"])
              /\ which = "out" => call.value.val.cashOutColumn = Some(OneHeaderX["out"])

----------------------------------------------------------------------------
(* C27 - which of the overlapping calls the cancellation check stops *)

\* the run is under way: called, and neither completed nor failed
UnderWay(run) == run.pc \notin {"idle", "done", "failed"}

\* the run holds the highest processing id given out so far
StartedLast(run, currentId) == run.pc # "idle" /\ run.processingId = currentId

\* C27: in every step, the call that started last is not stopped by the
\* cancellation check; a call under way that is not the last one reads no
\* further page, and when it comes to the start of a page it fails there
\* with the error 'Processing cancelled'.  A run stopped by the check is
\* therefore never the one that started last.
C27_OnlyEarlierCallsAreCancelled ==
    [][\A r \in Runs :
          /\ StartedLast(runs[r], currentProcessingId)
                 => runs'[r].error.kind # "Cancelled"
          /\ (UnderWay(runs[r]) /\ ~StartedLast(runs[r], currentProcessingId))
                 => /\ runs'[r].pagesRead = runs[r].pagesRead
                    /\ (runs'[r].pageNum # runs[r].pageNum
                         /\ runs'[r].pageNum <= runs'[r].maxPages)
                           => /\ runs'[r].pc = "failed"
                              /\ runs'[r].error.kind = "Cancelled"
                              /\ runs'[r].error.page = runs'[r].pageNum
          /\ runs'[r].error.kind = "Cancelled"
                 => runs'[r].processingId < currentProcessingId']_vars

\* of two overlapping calls the earlier one has been stopped by the check at
\* the start of a page and the later one has completed
C27_Witness ==
    \E r, q \in Runs :
        /\ runs[r].processingId < runs[q].processingId
        /\ runs[r].pc = "failed"
        /\ runs[r].error.kind = "Cancelled"
        /\ runs[q].processingId = currentProcessingId
        /\ runs[q].pc = "done"
        /\ runs[q].pagesRead # <<>>

----------------------------------------------------------------------------
(* C28 - the amount fragment and the description *)

\* the index of the fragment whose text became the amount of the
\* transaction: the first of the cash-in window when that yields a valid
\* amount, the first of the cash-out window otherwise
AmountFragment(rowItems, columnInfo) ==
    IF YieldsAmount(rowItems, columnInfo.cashInColumn)
    THEN FirstInWindow(rowItems, columnInfo.cashInColumn)
    ELSE FirstInWindow(rowItems, columnInfo.cashOutColumn)

\* x lies in the description window: right of the date column by more than
\* 50 and left of the nearer amount column by more than 20
InDescriptionWindow(x, columnInfo) ==
    /\ x > columnInfo.dateColumn.val + 50
    /\ columnInfo.cashInColumn.some => x < columnInfo.cashInColumn.val - 20
    /\ columnInfo.cashOutColumn.some => x < columnInfo.cashOutColumn.val - 20

\* C28: in every transaction parseRowWithSpatial builds, the fragment whose
\* text was parsed as the amount does not lie in the description window, and
\* its text is no part of the description of the transaction (unless another
\* fragment of the row has the same text).
C28_AmountNotInDescription ==
    (call.fn = "parseRowWithSpatial" /\ call.returned /\ call.value.some)
    => LET row == call.arg.rowItems
           i == AmountFragment(row, call.arg.columnInfo)
       IN  /\ i # 0
           /\ ~InDescriptionWindow(row[i].x, call.arg.columnInfo)
           /\ (\A j \in 1..Len(row) : j # i => row[j].text # row[i].text)
                  => ~includes(call.value.val.description, row[i].text)

----------------------------------------------------------------------------
(* C29 - several fragments with the same header keyword *)

\* the text of the fragment, in lower case, holds the word
HoldsWord(item, word) == includes(toLowerCase(item.text), word)

\* the x of the last fragment among those with the indexes S, none for no
\* fragment
LastX(items, S) == IF S = {} THEN Null ELSE Some(items[Greatest(S)].x)

\* the fragments that count for each column: a fragment counts for the first
\* of the words date, description, cash in, cash out that its text holds
DateFragments(items) ==
    {i \in 1..Len(items) : HoldsWord(items[i], <<"d","a","t","e">>)}

DescriptionFragments(items) ==
    {i \in 1..Len(items) : HoldsWord(items[i], <<"d","e","s","c","r","i","p","t","i","o","n">>)}
    \ DateFragments(items)

CashInFragments(items) ==
    {i \in 1..Len(items) : HoldsWord(items[i], <<"c","a","s","h"," ","i","n">>)}
    \ (DateFragments(items) \cup DescriptionFragments(items))

CashOutFragments(items) ==
    {i \in 1..Len(items) : HoldsWord(items[i], <<"c","a","s","h"," ","o","u","t">>)}
    \ (DateFragments(items) \cup DescriptionFragments(items))

----------------------------------------------------------------------------
(* C30 - the progress fractions of a run *)

\* C30: in every run of processDocument, on documents of 1 to 10 pages and
\* more, every progress fraction handed to the progress callback lies
\* between 0 and 1, no fraction is smaller than the one handed over before
\* it, and the last fraction of a run that returned a result is 1.0.
C30_ProgressInRangeAndNeverDecreases ==
    \A r \in Runs :
        /\ \A i \in 1..Len(runs[r].progress) :
               /\ runs[r].progress[i] >= 0
               /\ runs[r].progress[i] <= ProgressScale
        /\ \A i \in 2..Len(runs[r].progress) :
               runs[r].progress[i - 1] <= runs[r].progress[i]
        /\ runs[r].pc = "done"
              => /\ runs[r].progress # <<>>
                 /\ runs[r].progress[Len(runs[r].progress)] = ProgressScale

====
